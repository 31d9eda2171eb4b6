------------------------- MODULE ImagePipelineProofs -------------------------
(***************************************************************************)
(* First the volumes, of any length and with any files.  The two walks     *)
(* find what they are meant to.  A walk is a function of the position that *)
(* calls itself for later ones; that there is such a function, and what it *)
(* finds, is shown for the position nearest to the end where it were not.  *)
(* And what a builder that puts a file into a volume makes of it: it stays *)
(* laid out, its headers agree, and nothing drops out of the dispatch.     *)
(*                                                                         *)
(* Then what the builders leave behind, whatever the dump, the driver and  *)
(* the number of interrupted builds.  An image is what its builder makes   *)
(* of the dump (Made), never anything else; from this, and from what the   *)
(* walks find in a volume that is laid out, follow that its headers agree  *)
(* and that the drivers of the dump are dispatched from it.  A manifest is *)
(* of a whole image, and a GO stays true of the file it was given for.     *)
(*                                                                         *)
(* Last, that the tools refuse nothing they should let through.  The       *)
(* volume of an image has the files of the dump, at the same place or      *)
(* further behind, and one more (Grown); from this, from the cardinality   *)
(* of finite sets and from the space behind the last file follow the gates *)
(* of the preflight.  A verification fails where the dump has no stock     *)
(* volume, or where two removals leave a lock entry.                       *)
(***************************************************************************)
EXTENDS ImagePipeline, FiniteSetTheorems, WellFoundedInduction, TLAPS

(* A set of natural numbers has a least one.                               *)
LEMMA LessWellFounded == IsWellFoundedOn({ss \in Nat \X Nat : ss[1] < ss[2]}, Nat)
BY NatLessThanWellFounded, Zenon DEF OpToRel

LEMMA NatMin ==
  ASSUME NEW T \in SUBSET Nat, T # {}
  PROVE  \E x \in T : \A y \in T : x <= y
<1> DEFINE R == {ss \in Nat \X Nat : ss[1] < ss[2]}
<1>1. IsWellFoundedOn(R, Nat)
  BY LessWellFounded
<1>2. \A x \in Nat, y \in Nat : y < x => <<y, x>> \in R
  OBVIOUS
<1> HIDE DEF R
<1>3. PICK x \in T : \A y \in T : ~(<<y, x>> \in R)
  BY <1>1, WFMin
<1>4. \A y \in T : ~(y < x)
  BY <1>2, <1>3
<1> QED
  BY <1>4

-----------------------------------------------------------------------------
(* Rounding up to a multiple of a unit.                                    *)
LEMMA UpBounds ==
  ASSUME NEW n \in Nat, NEW unit \in Nat \ {0}
  PROVE  Up(n, unit) \in Nat /\ Up(n, unit) >= n /\ Up(n, unit) < n + unit
<1> DEFINE m == n + unit - 1
           q == m \div unit
<1>1. m \in Nat /\ q \in Nat
  OBVIOUS
<1>2. m = q * unit + (m % unit) /\ m % unit \in 0..(unit - 1)
  OBVIOUS
<1>3. Up(n, unit) = q * unit
  BY DEF Up
<1> HIDE DEF m, q
<1>4. q * unit \in Int
  BY <1>1
<1>5. q * unit \in Nat
  BY <1>1
<1>6. m = n + unit - 1
  BY DEF m
<1> QED
  BY <1>2, <1>3, <1>4, <1>5, <1>6

LEMMA Multiples ==
  ASSUME NEW a \in Nat, NEW unit \in Nat \ {0}
  PROVE  a % unit = 0 <=> \E k \in Nat : a = k * unit
<1>1. ASSUME a % unit = 0 PROVE \E k \in Nat : a = k * unit
  <2>1. a = (a \div unit) * unit + (a % unit) /\ a \div unit \in Nat
    OBVIOUS
  <2> QED
    BY <1>1, <2>1
<1>2. ASSUME NEW k \in Nat, a = k * unit PROVE a % unit = 0
  <2> DEFINE q == a \div unit
             r == a % unit
  <2>1. a = q * unit + r /\ q \in Nat /\ r \in 0..(unit - 1)
    OBVIOUS
  <2> HIDE DEF q, r
  <2>2. CASE q <= k - 1
    <3>1. q * unit <= (k - 1) * unit
      BY <2>1, <2>2
    <3> QED
      BY <2>1, <3>1, <1>2
  <2>3. CASE q >= k + 1
    <3>1. q * unit >= (k + 1) * unit
      BY <2>1, <2>3
    <3> QED
      BY <2>1, <3>1, <1>2
  <2>4. CASE q = k
    <3>1. r = 0
      BY <2>1, <2>4, <1>2
    <3> QED
      BY <3>1 DEF r
  <2> QED
    BY <2>1, <2>2, <2>3, <2>4
<1> QED
  BY <1>1, <1>2

LEMMA UpIsMultiple ==
  ASSUME NEW n \in Nat, NEW unit \in Nat \ {0}
  PROVE  Up(n, unit) % unit = 0
<1>1. (n + unit - 1) \div unit \in Nat
  OBVIOUS
<1> QED
  BY <1>1, UpBounds, Multiples DEF Up

LEMMA UpIsLeast ==
  ASSUME NEW n \in Nat, NEW m \in Nat, NEW unit \in Nat \ {0}, m % unit = 0, n <= m
  PROVE  Up(n, unit) <= m
<1> DEFINE q == (n + unit - 1) \div unit
<1>1. q \in Nat /\ q * unit <= n + unit - 1
  OBVIOUS
<1>2. Up(n, unit) = q * unit
  BY DEF Up
<1> HIDE DEF q
<1>3. PICK k \in Nat : m = k * unit
  BY Multiples
<1>4. CASE q <= k
  <2>1. q * unit <= k * unit
    BY <1>1, <1>4
  <2> QED
    BY <1>2, <1>3, <2>1
<1>5. CASE q >= k + 1
  <2>1. q * unit >= (k + 1) * unit
    BY <1>1, <1>5
  <2> QED
    BY <1>1, <1>3, <2>1
<1> QED
  BY <1>1, <1>4, <1>5

LEMMA NextMultiple ==
  ASSUME NEW a \in Nat, NEW b \in Nat, NEW unit \in Nat \ {0}, a % unit = 0, b % unit = 0
  PROVE  (a + b) % unit = 0 /\ (a < b => a + unit <= b)
<1>1. PICK k \in Nat : a = k * unit
  BY Multiples
<1>2. PICK l \in Nat : b = l * unit
  BY Multiples
<1>3. a + b = (k + l) * unit /\ a + b \in Nat /\ k + l \in Nat
  BY <1>1, <1>2
<1>4. ASSUME a < b PROVE a + unit <= b
  <2>1. CASE l <= k
    <3>1. l * unit <= k * unit
      BY <2>1
    <3> QED
      BY <1>1, <1>2, <1>4, <3>1
  <2>2. CASE l >= k + 1
    <3>1. l * unit >= (k + 1) * unit
      BY <2>2
    <3> QED
      BY <1>1, <1>2, <3>1
  <2> QED
    BY <2>1, <2>2
<1> QED
  BY <1>3, <1>4, Multiples

-----------------------------------------------------------------------------
(* What the walk finds from a position on, by what it finds from later     *)
(* ones on.                                                                *)
Found(at, fv, types, skipGaps, pos) ==
  IF pos + HDR > fv.len THEN [inv |-> {}, free |-> 0, ok |-> TRUE]
  ELSE IF FileAt(fv, types, pos) # {}
  THEN LET f == CHOOSE f \in FileAt(fv, types, pos) : TRUE
           rest == at[Up(f.off + f.size, ALIGN)]
       IN  [rest EXCEPT !.inv = @ \union {f}]
  ELSE IF ~Erased(fv, pos) THEN [inv |-> {}, free |-> 0, ok |-> FALSE]
  ELSE IF skipGaps THEN at[pos + ALIGN]
  ELSE [inv |-> {}, free |-> fv.len - pos, ok |-> TRUE]

Positions(fv) == 0..(fv.len + ALIGN)
IsWalk(at, fv, types, skipGaps) ==
  at = [pos \in Positions(fv) |-> Found(at, fv, types, skipGaps, pos)]

LEMMA WalkIs ==
  ASSUME NEW fv, NEW types, NEW skipGaps,
         \E at : IsWalk(at, fv, types, skipGaps)
  PROVE  \E at : IsWalk(at, fv, types, skipGaps) /\ Walk(fv, types, skipGaps) = at[FIRST]
<1> DEFINE w == CHOOSE at : IsWalk(at, fv, types, skipGaps)
<1>1. IsWalk(w, fv, types, skipGaps)
  OBVIOUS
<1>2. Walk(fv, types, skipGaps) = w[FIRST]
  BY DEF Walk, WalkBy, IsWalk, Found, Positions
<1> QED
  BY <1>1, <1>2

LEMMA FileEnds ==
  ASSUME NEW fv, LaidOut(fv), NEW f \in fv.files
  PROVE  /\ f.off \in Nat /\ f.size \in Nat /\ f.off < End(f) /\ f.off + f.size <= End(f)
         /\ End(f) \in Positions(fv) /\ End(f) <= fv.len /\ End(f) % ALIGN = 0
<1>1. f.off \in Nat /\ f.size \in Nat /\ HDR <= f.size /\ End(f) <= fv.len /\ fv.len \in Nat
  BY DEF LaidOut
<1>2. /\ End(f) \in Nat /\ End(f) >= f.off + f.size /\ End(f) % ALIGN = 0
  <2>1. f.off + f.size \in Nat /\ ALIGN \in Nat \ {0}
    BY <1>1, VolumeAssumption
  <2> QED
    BY <2>1, UpBounds, UpIsMultiple DEF End
<1> QED
  BY <1>1, <1>2, VolumeAssumption DEF Positions

LEMMA FoundByLater ==
  ASSUME NEW fv, LaidOut(fv), NEW types, NEW skipGaps, NEW pos \in Positions(fv), NEW g, NEW h,
         \A q \in Positions(fv) : q > pos => g[q] = h[q]
  PROVE  Found(g, fv, types, skipGaps, pos) = Found(h, fv, types, skipGaps, pos)
<1>1. CASE pos + HDR > fv.len
  BY <1>1 DEF Found
<1>2. CASE ~(pos + HDR > fv.len) /\ FileAt(fv, types, pos) # {}
  <2> DEFINE f == CHOOSE f \in FileAt(fv, types, pos) : TRUE
  <2>1. f \in fv.files /\ f.off = pos
    BY <1>2 DEF FileAt
  <2>2. End(f) \in Positions(fv) /\ End(f) > pos
    BY <2>1, FileEnds
  <2>3. g[End(f)] = h[End(f)]
    BY <2>2
  <2>4. g[Up(f.off + f.size, ALIGN)] = h[Up(f.off + f.size, ALIGN)]
    BY <2>3 DEF End
  <2> HIDE DEF f
  <2>5. /\ Found(g, fv, types, skipGaps, pos) =
             [g[Up(f.off + f.size, ALIGN)] EXCEPT !.inv = g[Up(f.off + f.size, ALIGN)].inv \union {f}]
        /\ Found(h, fv, types, skipGaps, pos) =
             [h[Up(f.off + f.size, ALIGN)] EXCEPT !.inv = h[Up(f.off + f.size, ALIGN)].inv \union {f}]
    BY <1>2 DEF Found, f
  <2> QED
    BY <2>4, <2>5
<1>3. CASE ~(pos + HDR > fv.len) /\ FileAt(fv, types, pos) = {}
  <2>1. pos + ALIGN \in Positions(fv) /\ pos + ALIGN > pos
    BY <1>3, VolumeAssumption DEF Positions, LaidOut
  <2>2. g[pos + ALIGN] = h[pos + ALIGN]
    BY <2>1
  <2> QED
    BY <1>3, <2>2 DEF Found
<1> QED
  BY <1>1, <1>2, <1>3

LEMMA WalkExists ==
  ASSUME NEW fv, LaidOut(fv), NEW types, NEW skipGaps
  PROVE  \E at : IsWalk(at, fv, types, skipGaps)
<1> DEFINE N == fv.len + ALIGN
           Right(g, pos) == g[pos] = Found(g, fv, types, skipGaps, pos)
           T == {k \in Nat : ~\E g : \A pos \in Positions(fv) : pos >= N - k => Right(g, pos)}
<1>n. N \in Nat /\ Positions(fv) = 0..N
  BY VolumeAssumption DEF LaidOut, Positions
<1>1. ASSUME T # {} PROVE FALSE
  <2>1. PICK x \in T : \A y \in T : x <= y
    BY <1>1, NatMin
  <2>2. PICK g : \A pos \in Positions(fv) : pos > N - x => Right(g, pos)
    <3>1. CASE x = 0
      BY <1>n, <3>1
    <3>2. CASE x # 0
      <4>1. x - 1 \in Nat /\ x - 1 \notin T
        BY <2>1, <3>2
      <4>2. PICK g : \A pos \in Positions(fv) : pos >= N - (x - 1) => Right(g, pos)
        BY <4>1
      <4>3. \A pos \in Positions(fv) : pos > N - x => pos >= N - (x - 1)
        BY <1>n, <2>1
      <4> QED
        BY <4>2, <4>3
    <3> QED
      BY <3>1, <3>2
  <2> DEFINE h == [pos \in Positions(fv) |->
                     IF pos = N - x THEN Found(g, fv, types, skipGaps, pos) ELSE g[pos]]
  <2>3. \A pos \in Positions(fv) : h[pos] = IF pos = N - x THEN Found(g, fv, types, skipGaps, pos) ELSE g[pos]
    OBVIOUS
  <2> HIDE DEF h
  <2>4. ASSUME NEW pos \in Positions(fv), pos >= N - x PROVE Right(h, pos)
    <3>1. \A q \in Positions(fv) : q > pos => h[q] = g[q]
      BY <1>n, <2>1, <2>3, <2>4
    <3>2. Found(h, fv, types, skipGaps, pos) = Found(g, fv, types, skipGaps, pos)
      BY <3>1, FoundByLater
    <3>3. CASE pos = N - x
      BY <2>3, <3>2, <3>3
    <3>4. CASE pos # N - x
      <4>1. pos > N - x
        BY <1>n, <2>1, <2>4, <3>4
      <4> QED
        BY <2>2, <2>3, <3>2, <3>4, <4>1
    <3> QED
      BY <3>3, <3>4
  <2> QED
    BY <2>1, <2>4
<1>2. PICK g : \A pos \in Positions(fv) : Right(g, pos)
  <2>1. PICK g : \A pos \in Positions(fv) : pos >= N - N => Right(g, pos)
    BY <1>1, <1>n
  <2>2. \A pos \in Positions(fv) : pos >= N - N
    BY <1>n
  <2> QED
    BY <2>1, <2>2
<1> DEFINE f == [pos \in Positions(fv) |-> g[pos]]
<1>3. \A pos \in Positions(fv) : Found(f, fv, types, skipGaps, pos) = Found(g, fv, types, skipGaps, pos)
  <2> SUFFICES ASSUME NEW pos \in Positions(fv)
               PROVE  Found(f, fv, types, skipGaps, pos) = Found(g, fv, types, skipGaps, pos)
    OBVIOUS
  <2>1. \A q \in Positions(fv) : q > pos => f[q] = g[q]
    OBVIOUS
  <2> HIDE DEF f
  <2> QED
    BY <2>1, FoundByLater
<1>4. f = [pos \in Positions(fv) |-> Found(f, fv, types, skipGaps, pos)]
  <2>1. \A pos \in Positions(fv) : g[pos] = Found(f, fv, types, skipGaps, pos)
    BY <1>2, <1>3
  <2> QED
    BY <2>1
<1> QED
  BY <1>4 DEF IsWalk

(* A place between two files.                                              *)
Clean(fv, pos) ==
  /\ pos \in Positions(fv) /\ pos % ALIGN = 0
  /\ \A f \in fv.files : f.off >= pos \/ f.off + f.size <= pos

(* What is seen from there: all that follows, or what follows without gap. *)
Ahead(fv, pos) == {f \in fv.files : f.off >= pos}
Adjoining(fv, pos) ==
  {f \in Ahead(fv, pos) :
     \A p \in pos..(f.off - 1) : \E g \in fv.files : g.off <= p /\ p < End(g)}
Seen(fv, skipGaps, pos) == IF skipGaps THEN Ahead(fv, pos) ELSE Adjoining(fv, pos)

LEMMA CleanAfterFile ==
  ASSUME NEW fv, LaidOut(fv), NEW pos, Clean(fv, pos), NEW f \in fv.files, f.off = pos
  PROVE  Clean(fv, End(f)) /\ \A g \in fv.files : g.off >= pos => g = f \/ g.off >= End(f)
<1>1. /\ f.off \in Nat /\ f.size \in Nat /\ f.off < End(f) /\ f.off + f.size <= End(f)
      /\ End(f) \in Positions(fv) /\ End(f) % ALIGN = 0 /\ End(f) \in Nat
  BY FileEnds DEF Positions, LaidOut
<1>2. ASSUME NEW g \in fv.files, g # f
      PROVE  g.off >= End(f) \/ (g.off + g.size <= f.off /\ g.off < f.off)
  <2>1. g.off \in Nat /\ g.size \in Nat /\ g.off % ALIGN = 0 /\ g.size >= HDR /\ HDR \in Nat \ {0}
    BY VolumeAssumption DEF LaidOut
  <2>2. CASE f.off + f.size <= g.off
    <3>1. f.off + f.size \in Nat /\ ALIGN \in Nat \ {0}
      BY <1>1, VolumeAssumption
    <3> QED
      BY <2>1, <2>2, <3>1, UpIsLeast DEF End
  <2>3. CASE g.off + g.size <= f.off
    BY <1>1, <2>1, <2>3
  <2> QED
    BY <1>2, <2>2, <2>3 DEF LaidOut
<1>3. \A g \in fv.files : g.off >= End(f) \/ g.off + g.size <= End(f)
  <2> SUFFICES ASSUME NEW g \in fv.files PROVE g.off >= End(f) \/ g.off + g.size <= End(f)
    OBVIOUS
  <2>1. g.off \in Nat /\ g.size \in Nat
    BY DEF LaidOut
  <2> QED
    BY <1>1, <1>2, <2>1
<1>4. \A g \in fv.files : g.off >= pos => g = f \/ g.off >= End(f)
  <2> SUFFICES ASSUME NEW g \in fv.files, g.off >= pos, g # f PROVE g.off >= End(f)
    OBVIOUS
  <2>1. g.off \in Nat
    BY DEF LaidOut
  <2> QED
    BY <1>1, <1>2, <2>1
<1> QED
  BY <1>1, <1>3, <1>4 DEF Clean

LEMMA CleanAfterGap ==
  ASSUME NEW fv, LaidOut(fv), NEW pos, Clean(fv, pos), pos <= fv.len, Erased(fv, pos)
  PROVE  /\ Clean(fv, pos + ALIGN) /\ pos + ALIGN \in Positions(fv) /\ pos + ALIGN > pos
         /\ \A f \in fv.files : f.off >= pos => f.off >= pos + ALIGN
<1>1. pos \in Nat /\ pos % ALIGN = 0 /\ ALIGN \in Nat \ {0} /\ fv.len \in Nat
  BY VolumeAssumption DEF Clean, Positions, LaidOut
<1>2. ALIGN = 1 * ALIGN
  BY <1>1
<1>3. ALIGN % ALIGN = 0
  BY <1>1, <1>2, Multiples
<1>4. (pos + ALIGN) % ALIGN = 0
  BY <1>1, <1>3, NextMultiple
<1>5. pos + ALIGN \in Positions(fv) /\ pos + ALIGN > pos
  BY <1>1 DEF Positions
<1>6. \A f \in fv.files : /\ f.off >= pos + ALIGN \/ f.off + f.size <= pos + ALIGN
                          /\ f.off >= pos => f.off >= pos + ALIGN
  <2> SUFFICES ASSUME NEW f \in fv.files
               PROVE  /\ f.off >= pos + ALIGN \/ f.off + f.size <= pos + ALIGN
                      /\ f.off >= pos => f.off >= pos + ALIGN
    OBVIOUS
  <2>1. f.off \in Nat /\ f.size \in Nat /\ f.size >= HDR /\ HDR \in Nat \ {0}
    BY VolumeAssumption DEF LaidOut
  <2> QED
    BY <1>1, <2>1 DEF Erased
<1> QED
  BY <1>4, <1>5, <1>6 DEF Clean

LEMMA SeenFromFile ==
  ASSUME NEW fv, LaidOut(fv), NEW skipGaps \in BOOLEAN, NEW pos, Clean(fv, pos),
         NEW f \in fv.files, f.off = pos
  PROVE  Seen(fv, skipGaps, pos) = {f} \union Seen(fv, skipGaps, End(f))
<1>1. pos \in Nat /\ pos < End(f) /\ End(f) \in Nat
  BY FileEnds DEF Positions, LaidOut
<1>2. \A g \in fv.files : g.off >= pos => g = f \/ g.off >= End(f)
  BY CleanAfterFile
<1>3. Ahead(fv, pos) = {f} \union Ahead(fv, End(f))
  <2>1. \A g \in fv.files : g.off \in Nat
    BY DEF LaidOut
  <2> QED
    BY <1>1, <1>2, <2>1 DEF Ahead
<1>4. ASSUME NEW g \in Ahead(fv, End(f))
      PROVE  g \in Adjoining(fv, pos) <=> g \in Adjoining(fv, End(f))
  <2>1. g \in fv.files /\ g.off \in Nat /\ g.off >= End(f) /\ g \in Ahead(fv, pos)
    BY <1>1, <1>4 DEF Ahead, LaidOut
  <2>2. \A p \in pos..(g.off - 1) : p \in End(f)..(g.off - 1) \/ (f.off <= p /\ p < End(f))
    BY <1>1, <2>1
  <2>3. \A p \in End(f)..(g.off - 1) : p \in pos..(g.off - 1)
    BY <1>1, <2>1
  <2> QED
    BY <1>4, <2>1, <2>2, <2>3 DEF Adjoining
<1>5. f \in Adjoining(fv, pos)
  BY <1>1, <1>3 DEF Adjoining
<1>6. Adjoining(fv, pos) = {f} \union Adjoining(fv, End(f))
  BY <1>3, <1>4, <1>5 DEF Adjoining
<1> QED
  BY <1>3, <1>6 DEF Seen

LEMMA SeenFromGap ==
  ASSUME NEW fv, LaidOut(fv), NEW pos, Clean(fv, pos), pos <= fv.len, Erased(fv, pos)
  PROVE  Ahead(fv, pos) = Ahead(fv, pos + ALIGN) /\ Adjoining(fv, pos) = {}
<1>1. pos \in Nat /\ ALIGN \in Nat \ {0} /\ pos % ALIGN = 0
  BY VolumeAssumption DEF Clean, Positions, LaidOut
<1>2. \A f \in fv.files : f.off >= pos => f.off >= pos + ALIGN
  BY CleanAfterGap
<1>3. Ahead(fv, pos) = Ahead(fv, pos + ALIGN)
  <2>1. \A g \in fv.files : g.off \in Nat
    BY DEF LaidOut
  <2> QED
    BY <1>1, <1>2, <2>1 DEF Ahead
<1>4. ASSUME NEW g \in fv.files, g.off <= pos, pos < End(g) PROVE FALSE
  <2>1. g.off \in Nat /\ g.size \in Nat /\ g.off + g.size \in Nat
    BY DEF LaidOut
  <2>2. CASE g.off >= pos
    BY <1>1, <1>2, <1>4, <2>1, <2>2
  <2>3. CASE g.off + g.size <= pos
    <3>1. End(g) <= pos
      BY <1>1, <2>1, <2>3, UpIsLeast DEF End
    <3>2. End(g) \in Nat
      BY FileEnds DEF Positions
    <3> QED
      BY <1>1, <1>4, <3>1, <3>2
  <2> QED
    BY <2>2, <2>3 DEF Clean
<1>5. ASSUME NEW f \in Adjoining(fv, pos) PROVE FALSE
  <2>1. f \in fv.files /\ f.off \in Nat /\ f.off >= pos + ALIGN
    BY <1>2, <1>5 DEF Adjoining, Ahead, LaidOut
  <2>2. pos \in pos..(f.off - 1)
    BY <1>1, <2>1
  <2> QED
    BY <1>4, <1>5, <2>2 DEF Adjoining
<1> QED
  BY <1>3, <1>5

Finds(at, fv, types, skipGaps, pos) ==
  /\ DOMAIN at[pos] = {"inv", "free", "ok"}
  /\ IF \A f \in Seen(fv, skipGaps, pos) : f.type \in types /\ f.sum = "good"
     THEN at[pos].inv = Seen(fv, skipGaps, pos) /\ at[pos].ok = TRUE
     ELSE at[pos].ok = FALSE

(* One position, when the walk finds what it should from later ones on.    *)
LEMMA FindsByLater ==
  ASSUME NEW fv, LaidOut(fv), NEW types, NEW skipGaps \in BOOLEAN, NEW at,
         IsWalk(at, fv, types, skipGaps), NEW pos, Clean(fv, pos),
         \A q \in Positions(fv) : q > pos /\ Clean(fv, q) => Finds(at, fv, types, skipGaps, q)
  PROVE  Finds(at, fv, types, skipGaps, pos)
<1>1. pos \in Positions(fv) /\ pos \in Nat /\ fv.len \in Nat /\ HDR \in Nat \ {0} /\ ALIGN \in Nat \ {0}
  BY VolumeAssumption DEF Clean, Positions, LaidOut
<1>2. at[pos] = Found(at, fv, types, skipGaps, pos)
  BY <1>1 DEF IsWalk
<1>3. \A f \in fv.files : f.off \in Nat /\ f.size \in Nat /\ HDR <= f.size /\ f.off + f.size <= fv.len
  <2> SUFFICES ASSUME NEW f \in fv.files
               PROVE  f.off \in Nat /\ f.size \in Nat /\ HDR <= f.size /\ f.off + f.size <= fv.len
    OBVIOUS
  <2>1. f.off + f.size <= End(f) /\ End(f) <= fv.len /\ End(f) \in Nat
    BY FileEnds DEF Positions
  <2> QED
    BY <1>1, <2>1 DEF LaidOut
<1>4. CASE pos + HDR > fv.len
  <2>1. Ahead(fv, pos) = {}
    BY <1>1, <1>3, <1>4 DEF Ahead
  <2>2. Seen(fv, skipGaps, pos) = {}
    BY <2>1 DEF Seen, Adjoining
  <2>3. at[pos] = [inv |-> {}, free |-> 0, ok |-> TRUE]
    BY <1>2, <1>4 DEF Found
  <2> QED
    BY <2>2, <2>3 DEF Finds
<1>5. CASE ~(pos + HDR > fv.len) /\ FileAt(fv, types, pos) # {}
  <2> DEFINE f == CHOOSE f \in FileAt(fv, types, pos) : TRUE
  <2>1. f \in fv.files /\ f.off = pos /\ f.type \in types /\ f.sum = "good"
    BY <1>5 DEF FileAt
  <2>2. Found(at, fv, types, skipGaps, pos) =
          [at[Up(f.off + f.size, ALIGN)] EXCEPT !.inv = at[Up(f.off + f.size, ALIGN)].inv \union {f}]
    BY <1>5 DEF Found
  <2> HIDE DEF f
  <2>3. at[pos] = [at[End(f)] EXCEPT !.inv = at[End(f)].inv \union {f}]
    BY <1>2, <2>2 DEF End
  <2>4. End(f) \in Positions(fv) /\ End(f) > pos /\ Clean(fv, End(f))
    BY <2>1, FileEnds, CleanAfterFile
  <2>5. Finds(at, fv, types, skipGaps, End(f))
    BY <2>4
  <2>6. Seen(fv, skipGaps, pos) = {f} \union Seen(fv, skipGaps, End(f))
    BY <2>1, SeenFromFile
  <2>7. /\ DOMAIN at[pos] = {"inv", "free", "ok"} /\ at[pos].inv = at[End(f)].inv \union {f}
        /\ at[pos].ok = at[End(f)].ok
    BY <2>3, <2>5 DEF Finds
  <2> QED
    BY <2>1, <2>5, <2>6, <2>7 DEF Finds
<1>6. CASE ~(pos + HDR > fv.len) /\ FileAt(fv, types, pos) = {} /\ ~Erased(fv, pos)
  <2>1. at[pos] = [inv |-> {}, free |-> 0, ok |-> FALSE]
    BY <1>2, <1>6 DEF Found
  <2>2. PICK f \in fv.files : ~(f.off + f.size <= pos) /\ ~(pos + ALIGN <= f.off)
    BY <1>6 DEF Erased
  <2>3. f.off >= pos /\ f.off \in Nat /\ f.off % ALIGN = 0
    BY <2>2 DEF Clean, LaidOut
  <2>4. f.off = pos
    <3>1. pos % ALIGN = 0
      BY DEF Clean
    <3>2. pos < f.off => pos + ALIGN <= f.off
      BY <1>1, <2>3, <3>1, NextMultiple
    <3> QED
      BY <1>1, <2>2, <2>3, <3>2
  <2>5. ~(f.type \in types /\ f.sum = "good")
    BY <1>3, <1>6, <2>4 DEF FileAt
  <2>6. f \in Seen(fv, skipGaps, pos)
    BY <2>4, SeenFromFile
  <2> QED
    BY <2>1, <2>5, <2>6 DEF Finds
<1>7. CASE ~(pos + HDR > fv.len) /\ FileAt(fv, types, pos) = {} /\ Erased(fv, pos)
  <2>1. pos <= fv.len
    BY <1>1, <1>7
  <2>2. Ahead(fv, pos) = Ahead(fv, pos + ALIGN) /\ Adjoining(fv, pos) = {}
    BY <1>7, <2>1, SeenFromGap
  <2>3. CASE skipGaps
    <3>1. at[pos] = at[pos + ALIGN]
      BY <1>2, <1>7, <2>3 DEF Found
    <3>2. Clean(fv, pos + ALIGN) /\ pos + ALIGN \in Positions(fv) /\ pos + ALIGN > pos
      BY <1>7, <2>1, CleanAfterGap
    <3>3. Finds(at, fv, types, skipGaps, pos + ALIGN)
      BY <3>2
    <3>4. Seen(fv, skipGaps, pos) = Seen(fv, skipGaps, pos + ALIGN)
      BY <2>2, <2>3 DEF Seen
    <3> QED
      BY <3>1, <3>3, <3>4 DEF Finds
  <2>4. CASE ~skipGaps
    <3>1. at[pos] = [inv |-> {}, free |-> fv.len - pos, ok |-> TRUE]
      BY <1>2, <1>7, <2>4 DEF Found
    <3>2. Seen(fv, skipGaps, pos) = {}
      BY <2>2, <2>4 DEF Seen
    <3> QED
      BY <3>1, <3>2 DEF Finds
  <2> QED
    BY <2>3, <2>4
<1> QED
  BY <1>4, <1>5, <1>6, <1>7

LEMMA WalkFinds ==
  ASSUME NEW fv, LaidOut(fv), NEW types, NEW skipGaps \in BOOLEAN, NEW at,
         IsWalk(at, fv, types, skipGaps), NEW pos, Clean(fv, pos)
  PROVE  Finds(at, fv, types, skipGaps, pos)
<1> DEFINE N == fv.len + ALIGN
           Wrong(q) == q \in Positions(fv) /\ Clean(fv, q) /\ ~Finds(at, fv, types, skipGaps, q)
           T == {k \in Nat : Wrong(N - k)}
<1>n. N \in Nat /\ Positions(fv) = 0..N
  BY VolumeAssumption DEF LaidOut, Positions
<1>1. ASSUME T # {} PROVE FALSE
  <2>1. PICK x \in T : \A y \in T : x <= y
    BY <1>1, NatMin
  <2>2. x \in Nat /\ Wrong(N - x)
    BY <2>1
  <2>3. ASSUME NEW q \in Positions(fv), q > N - x, Wrong(q) PROVE FALSE
    <3>1. N - q \in Nat /\ N - (N - q) = q /\ N - q < x
      BY <1>n, <2>2, <2>3
    <3>2. N - q \in T
      BY <2>3, <3>1
    <3> QED
      BY <2>1, <2>2, <3>1, <3>2
  <2>4. \A q \in Positions(fv) : q > N - x /\ Clean(fv, q) => Finds(at, fv, types, skipGaps, q)
    BY <2>3
  <2>5. Finds(at, fv, types, skipGaps, N - x)
    BY <2>2, <2>4, FindsByLater
  <2> QED
    BY <2>2, <2>5
<1>2. pos \in Positions(fv) /\ N - pos \in Nat /\ N - (N - pos) = pos
  BY <1>n DEF Clean
<1>3. ~Wrong(pos)
  BY <1>1, <1>2
<1> QED
  BY <1>2, <1>3

LEMMA FirstIsClean ==
  ASSUME NEW fv, LaidOut(fv)
  PROVE  /\ Clean(fv, FIRST) /\ Ahead(fv, FIRST) = fv.files
         /\ Adjoining(fv, FIRST) = Reached(fv)
<1>1. FIRST \in Nat /\ FIRST % ALIGN = 0 /\ ALIGN \in Nat \ {0}
  BY VolumeAssumption
<1>2. FIRST \in Positions(fv)
  BY <1>1 DEF Positions, LaidOut
<1>3. \A f \in fv.files : f.off >= FIRST
  BY <1>1 DEF LaidOut
<1> QED
  BY <1>1, <1>2, <1>3 DEF Clean, Ahead, Adjoining, Reached

(* The builders' walk finds every file of a volume, and the preflight's    *)
(* the files that the DXE core reaches; at one they do not know they       *)
(* raise.  For every volume whose files are aligned, inside and apart.     *)
THEOREM WalksFind ==
  ASSUME NEW fv, LaidOut(fv)
  PROVE  /\ IF \A f \in fv.files : f.type \in BuilderTypes /\ f.sum = "good"
            THEN WalkInnerFv(fv).inv = fv.files /\ WalkInnerFv(fv).ok = TRUE
            ELSE WalkInnerFv(fv).ok = FALSE
         /\ IF \A f \in Reached(fv) : f.type \in PreflightTypes /\ f.sum = "good"
            THEN WalkFfs(fv).inv = Reached(fv) /\ WalkFfs(fv).ok = TRUE
            ELSE WalkFfs(fv).ok = FALSE
<1>1. /\ Clean(fv, FIRST) /\ Ahead(fv, FIRST) = fv.files
      /\ Adjoining(fv, FIRST) = Reached(fv)
  BY FirstIsClean
<1>2. PICK at : IsWalk(at, fv, BuilderTypes, TRUE) /\ WalkInnerFv(fv) = at[FIRST]
  BY WalkExists, WalkIs DEF WalkInnerFv
<1>3. Finds(at, fv, BuilderTypes, TRUE, FIRST)
  BY <1>1, <1>2, WalkFinds
<1>4. PICK to : IsWalk(to, fv, PreflightTypes, FALSE) /\ WalkFfs(fv) = to[FIRST]
  BY WalkExists, WalkIs DEF WalkFfs
<1>5. Finds(to, fv, PreflightTypes, FALSE, FIRST)
  BY <1>1, <1>4, WalkFinds
<1> QED
  BY <1>1, <1>2, <1>3, <1>4, <1>5 DEF Finds, Seen

-----------------------------------------------------------------------------
(* A volume with one more file, and the length that its header gives.      *)
IsVolume(fv) ==
  /\ fv = [len |-> fv.len, blk |-> fv.blk, num |-> fv.num, sum |-> fv.sum, files |-> fv.files]
  /\ fv.len \in Nat /\ fv.blk \in Nat \ {0} /\ fv.num \in Nat
  /\ \A f \in fv.files : IsFile(f)

LEMMA WithIs ==
  ASSUME NEW fv, DOMAIN fv = {"len", "blk", "num", "sum", "files"}, NEW blob, NEW pos, NEW len
  PROVE  /\ With(fv, blob, pos, len).len = len /\ With(fv, blob, pos, len).blk = fv.blk
         /\ With(fv, blob, pos, len).num = len \div fv.blk
         /\ HeaderOk(With(fv, blob, pos, len))
         /\ With(fv, blob, pos, len).files = fv.files \union {Put(blob, pos)}
         /\ DOMAIN With(fv, blob, pos, len) = {"len", "blk", "num", "sum", "files"}
BY DEF With, Resized, HeaderSum, HeaderOk

LEMMA PutIs ==
  ASSUME NEW blob, IsFile(blob), NEW pos
  PROVE  /\ Put(blob, pos).guid = blob.guid /\ Put(blob, pos).type = blob.type
         /\ Put(blob, pos).off = pos /\ Put(blob, pos).size = blob.size
         /\ Put(blob, pos).body = blob.body /\ Put(blob, pos).sum = blob.sum
         /\ Put(blob, pos).state = "valid"
<1>1. DOMAIN blob = {"guid", "type", "off", "size", "body", "sum", "state"}
  BY DEF IsFile
<1> QED
  BY <1>1 DEF Put

(* A whole number of blocks.                                               *)
LEMMA WholeBlocks ==
  ASSUME NEW len \in Nat, NEW blk \in Nat \ {0}, len % blk = 0
  PROVE  (len \div blk) * blk = len
BY Multiples

(* Where a file goes between files that are laid out, these stay so.       *)
LEMMA PlacedIsLaidOut ==
  ASSUME NEW fv, NEW blob, IsFile(blob), blob.size \in Nat, HDR <= blob.size,
         DOMAIN fv = {"len", "blk", "num", "sum", "files"},
         NEW pos \in Nat, pos % ALIGN = 0, FIRST <= pos, NEW len \in Nat,
         Up(pos + blob.size, ALIGN) <= len,
         \A f \in fv.files : /\ f.off \in Nat /\ f.size \in Nat /\ f.off % ALIGN = 0
                             /\ FIRST <= f.off /\ HDR <= f.size /\ End(f) <= len
                             /\ f.off + f.size <= pos \/ pos + blob.size <= f.off,
         \A f, g \in fv.files : f = g \/ f.off + f.size <= g.off \/ g.off + g.size <= f.off
  PROVE  LaidOut(With(fv, blob, pos, len))
<1> DEFINE p == Put(blob, pos)
<1>1. p.off = pos /\ p.size = blob.size
  BY PutIs
<1>2. End(p) = Up(pos + blob.size, ALIGN)
  BY <1>1 DEF End
<1>3. /\ With(fv, blob, pos, len).len = len
      /\ With(fv, blob, pos, len).files = fv.files \union {p}
  BY WithIs
<1>4. FIRST <= len
  <2>1. pos + blob.size \in Nat /\ ALIGN \in Nat \ {0} /\ FIRST \in Nat
    BY VolumeAssumption
  <2>2. Up(pos + blob.size, ALIGN) \in Nat /\ Up(pos + blob.size, ALIGN) >= pos + blob.size
    BY <2>1, UpBounds
  <2> QED
    BY <2>1, <2>2
<1> HIDE DEF p
<1> QED
  BY <1>1, <1>2, <1>3, <1>4 DEF LaidOut

LEMMA MaxIs ==
  ASSUME NEW S \in SUBSET Nat, S # {}, NEW n \in Nat, \A x \in S : x <= n
  PROVE  Max(S) \in S /\ \A x \in S : x <= Max(S)
<1> DEFINE T == {n - x : x \in S}
<1>1. T \in SUBSET Nat /\ T # {}
  <2>1. \A x \in S : n - x \in Nat
    OBVIOUS
  <2> QED
    BY <2>1
<1>2. PICK y \in T : \A z \in T : y <= z
  BY <1>1, NatMin
<1>3. PICK m \in S : y = n - m
  BY <1>2
<1>4. \A x \in S : m >= x
  BY <1>2, <1>3
<1>5. \E m0 \in S : \A x \in S : m0 >= x
  BY <1>4
<1>6. Max(S) \in S /\ \A x \in S : Max(S) >= x
  BY <1>5 DEF Max
<1> QED
  BY <1>6

(* The append builders find the end of the last file.                      *)
LEMMA AppendPlace ==
  ASSUME NEW fv, LaidOut(fv), WalkInnerFv(fv).ok, NEW blob
  PROVE  /\ \A f \in fv.files : f.type \in BuilderTypes /\ f.sum = "good"
         /\ WalkInnerFv(fv).inv = fv.files
         /\ \E pos \in {FIRST} \union {End(f) : f \in fv.files} :
              /\ pos \in Nat /\ pos % ALIGN = 0 /\ FIRST <= pos /\ pos <= fv.len
              /\ \A f \in fv.files : End(f) <= pos
              /\ AppendAtEnd(fv, blob) =
                   With(fv, blob, pos, Up(Up(pos + blob.size, ALIGN), fv.blk))
<1>1. /\ \A f \in fv.files : f.type \in BuilderTypes /\ f.sum = "good"
      /\ WalkInnerFv(fv).inv = fv.files
  BY WalksFind
<1> DEFINE S == {FIRST} \union {End(f) : f \in fv.files}
<1>2. S \in SUBSET Nat /\ S # {} /\ \A x \in S : x <= fv.len /\ x % ALIGN = 0
  <2>1. FIRST \in Nat /\ FIRST <= fv.len /\ FIRST % ALIGN = 0
    BY VolumeAssumption DEF LaidOut
  <2>2. \A f \in fv.files : End(f) \in Nat /\ End(f) <= fv.len /\ End(f) % ALIGN = 0
    BY FileEnds DEF Positions
  <2> QED
    BY <2>1, <2>2
<1>3. fv.len \in Nat
  BY DEF LaidOut
<1>4. Max(S) \in S /\ \A x \in S : x <= Max(S)
  BY <1>2, <1>3, MaxIs
<1>5. AppendAtEnd(fv, blob) = With(fv, blob, Max(S), Up(Up(Max(S) + blob.size, ALIGN), fv.blk))
  BY <1>1 DEF AppendAtEnd
<1> QED
  BY <1>1, <1>2, <1>4, <1>5

LEMMA AppendedVolume ==
  ASSUME NEW fv, LaidOut(fv), IsVolume(fv), WalkInnerFv(fv).ok,
         NEW blob, IsFile(blob), blob.size \in Nat, HDR <= blob.size
  PROVE  LET out == AppendAtEnd(fv, blob)
         IN  LaidOut(out) /\ HeaderOk(out) /\ BlockMapOk(out)
<1>1. PICK pos \in {FIRST} \union {End(f) : f \in fv.files} :
        /\ pos \in Nat /\ pos % ALIGN = 0 /\ FIRST <= pos /\ pos <= fv.len
        /\ \A f \in fv.files : End(f) <= pos
        /\ AppendAtEnd(fv, blob) =
             With(fv, blob, pos, Up(Up(pos + blob.size, ALIGN), fv.blk))
  BY AppendPlace
<1> DEFINE end == Up(pos + blob.size, ALIGN)
           len == Up(end, fv.blk)
<1>2. pos + blob.size \in Nat /\ ALIGN \in Nat \ {0} /\ fv.blk \in Nat \ {0}
  BY <1>1, VolumeAssumption DEF IsVolume
<1>3. end \in Nat /\ end >= pos + blob.size
  BY <1>2, UpBounds
<1>4. len \in Nat /\ len >= end /\ len % fv.blk = 0
  BY <1>2, <1>3, UpBounds, UpIsMultiple
<1> HIDE DEF end, len
<1>5. DOMAIN fv = {"len", "blk", "num", "sum", "files"}
  BY DEF IsVolume
<1>6. AppendAtEnd(fv, blob) = With(fv, blob, pos, len)
  BY <1>1 DEF len, end
<1>7. \A f \in fv.files : /\ f.off \in Nat /\ f.size \in Nat /\ f.off % ALIGN = 0
                          /\ FIRST <= f.off /\ HDR <= f.size /\ End(f) <= len
                          /\ f.off + f.size <= pos
  <2> SUFFICES ASSUME NEW f \in fv.files
               PROVE  /\ f.off \in Nat /\ f.size \in Nat /\ f.off % ALIGN = 0
                      /\ FIRST <= f.off /\ HDR <= f.size /\ End(f) <= len
                      /\ f.off + f.size <= pos
    OBVIOUS
  <2>1. End(f) <= pos /\ f.off + f.size <= End(f) /\ End(f) \in Nat
    BY <1>1, FileEnds DEF Positions
  <2> QED
    BY <1>1, <1>2, <1>3, <1>4, <2>1 DEF LaidOut
<1>8. LaidOut(With(fv, blob, pos, len))
  <2>1. \A f, g \in fv.files : f = g \/ f.off + f.size <= g.off \/ g.off + g.size <= f.off
    BY DEF LaidOut
  <2>2. Up(pos + blob.size, ALIGN) <= len
    BY <1>4 DEF end
  <2> QED
    BY <1>1, <1>4, <1>5, <1>7, <2>1, <2>2, PlacedIsLaidOut
<1>9. HeaderOk(With(fv, blob, pos, len)) /\ BlockMapOk(With(fv, blob, pos, len))
  BY <1>2, <1>4, <1>5, WithIs, WholeBlocks DEF BlockMapOk
<1> QED
  BY <1>6, <1>8, <1>9

(* O3 puts it behind the volume.                                           *)
LEMMA TailVolume ==
  ASSUME NEW fv, LaidOut(fv), IsVolume(fv), fv.len % ALIGN = 0,
         NEW blob, IsFile(blob), blob.size \in Nat, HDR <= blob.size
  PROVE  LET out == AppendAfterTail(fv, blob)
         IN  /\ LaidOut(out) /\ HeaderOk(out)
             /\ Up(Up(fv.len + blob.size, ALIGN), PAGE) % fv.blk = 0 => BlockMapOk(out)
<1> DEFINE end == Up(fv.len + blob.size, ALIGN)
           len == Up(end, PAGE)
<1>2. /\ fv.len \in Nat /\ fv.len + blob.size \in Nat /\ ALIGN \in Nat \ {0} /\ fv.blk \in Nat \ {0}
      /\ PAGE \in Nat \ {0} /\ FIRST <= fv.len
  BY VolumeAssumption DEF IsVolume, LaidOut
<1>3. end \in Nat /\ end >= fv.len + blob.size
  BY <1>2, UpBounds
<1>4. len \in Nat /\ len >= end
  BY <1>2, <1>3, UpBounds
<1> HIDE DEF end, len
<1>5. DOMAIN fv = {"len", "blk", "num", "sum", "files"}
  BY DEF IsVolume
<1>6. AppendAfterTail(fv, blob) = With(fv, blob, fv.len, len)
  BY DEF AppendAfterTail, len, end
<1>7. \A f \in fv.files : /\ f.off \in Nat /\ f.size \in Nat /\ f.off % ALIGN = 0
                          /\ FIRST <= f.off /\ HDR <= f.size /\ End(f) <= len
                          /\ f.off + f.size <= fv.len
  <2> SUFFICES ASSUME NEW f \in fv.files
               PROVE  /\ f.off \in Nat /\ f.size \in Nat /\ f.off % ALIGN = 0
                      /\ FIRST <= f.off /\ HDR <= f.size /\ End(f) <= len
                      /\ f.off + f.size <= fv.len
    OBVIOUS
  <2>1. End(f) <= fv.len /\ f.off + f.size <= End(f) /\ End(f) \in Nat
    BY FileEnds DEF Positions
  <2> QED
    BY <1>2, <1>3, <1>4, <2>1 DEF LaidOut
<1>8. LaidOut(With(fv, blob, fv.len, len))
  <2>1. \A f, g \in fv.files : f = g \/ f.off + f.size <= g.off \/ g.off + g.size <= f.off
    BY DEF LaidOut
  <2>2. Up(fv.len + blob.size, ALIGN) <= len
    BY <1>4 DEF end
  <2> QED
    BY <1>2, <1>4, <1>5, <1>7, <2>1, <2>2, PlacedIsLaidOut
<1>9. HeaderOk(With(fv, blob, fv.len, len))
  BY <1>5, WithIs
<1>10. ASSUME len % fv.blk = 0 PROVE BlockMapOk(With(fv, blob, fv.len, len))
  <2>1. (len \div fv.blk) * fv.blk = len
    BY <1>2, <1>4, <1>10, WholeBlocks
  <2> QED
    BY <1>5, <2>1, WithIs DEF BlockMapOk
<1> QED
  BY <1>6, <1>8, <1>9, <1>10 DEF len, end

-----------------------------------------------------------------------------
(* The early slot: the last file makes room for the driver.                *)
Slot(fv) == Max({f.off : f \in fv.files})
Shifted(f, room) == [f EXCEPT !.off = @ + room]

LEMMA ShiftedIs ==
  ASSUME NEW f, IsFile(f), NEW room
  PROVE  /\ Shifted(f, room).off = f.off + room /\ Shifted(f, room).size = f.size
         /\ Shifted(f, room).guid = f.guid /\ Shifted(f, room).type = f.type
         /\ Shifted(f, room).body = f.body /\ Shifted(f, room).sum = f.sum
         /\ Shifted(f, room).state = f.state /\ IsFile(Shifted(f, room))
<1>1. DOMAIN f = {"guid", "type", "off", "size", "body", "sum", "state"}
  BY DEF IsFile
<1> QED
  BY <1>1 DEF Shifted, IsFile

LEMMA LastFile ==
  ASSUME NEW fv, LaidOut(fv), fv.files # {}
  PROVE  /\ Slot(fv) \in Nat /\ Slot(fv) % ALIGN = 0 /\ FIRST <= Slot(fv)
         /\ \E l \in fv.files :
              /\ l.off = Slot(fv)
              /\ \A f \in fv.files : f = l \/ (f.off < Slot(fv) /\ End(f) <= Slot(fv))
<1> DEFINE S == {f.off : f \in fv.files}
<1>1. S \in SUBSET Nat /\ S # {} /\ \A x \in S : x <= fv.len
  <2>1. \A f \in fv.files : f.off \in Nat /\ f.off <= fv.len
    <3> SUFFICES ASSUME NEW f \in fv.files PROVE f.off \in Nat /\ f.off <= fv.len
      OBVIOUS
    <3>1. f.off < End(f) /\ End(f) <= fv.len /\ End(f) \in Nat /\ f.off \in Nat /\ fv.len \in Nat
      BY FileEnds DEF Positions, LaidOut
    <3> QED
      BY <3>1
  <2> QED
    BY <2>1
<1>2. Max(S) \in S /\ \A x \in S : x <= Max(S)
  BY <1>1, MaxIs DEF LaidOut
<1>3. Slot(fv) = Max(S)
  BY DEF Slot
<1> HIDE DEF S
<1>4. PICK l \in fv.files : l.off = Slot(fv)
  BY <1>2, <1>3 DEF S
<1>5. ASSUME NEW f \in fv.files, f # l PROVE f.off < Slot(fv) /\ End(f) <= Slot(fv)
  <2>1. /\ f.off \in Nat /\ f.size \in Nat /\ f.size >= HDR /\ HDR \in Nat \ {0} /\ ALIGN \in Nat \ {0}
        /\ l.off \in Nat /\ l.size \in Nat /\ l.size >= HDR /\ l.off % ALIGN = 0
    BY VolumeAssumption DEF LaidOut
  <2>2. f.off <= l.off
    BY <1>2, <1>3, <1>4 DEF S
  <2>3. f.off + f.size <= l.off \/ l.off + l.size <= f.off
    BY <1>5 DEF LaidOut
  <2>4. f.off + f.size <= l.off /\ f.off + f.size \in Nat
    BY <2>1, <2>2, <2>3
  <2>5. End(f) <= l.off
    BY <2>1, <2>4, UpIsLeast DEF End
  <2> QED
    BY <1>4, <2>1, <2>4, <2>5
<1>6. l.off \in Nat /\ l.off % ALIGN = 0 /\ FIRST <= l.off
  BY DEF LaidOut
<1> QED
  BY <1>4, <1>5, <1>6

(* A file and a place that are both moved by whole units.                  *)
LEMMA EndShifts ==
  ASSUME NEW off \in Nat, off % ALIGN = 0, NEW size \in Nat
  PROVE  Up(off + size, ALIGN) = off + Up(size, ALIGN)
<1> DEFINE a == Up(off + size, ALIGN)
           b == Up(size, ALIGN)
<1>1. ALIGN \in Nat \ {0} /\ off + size \in Nat
  BY VolumeAssumption
<1>2. a \in Nat /\ a >= off + size /\ a % ALIGN = 0 /\ b \in Nat /\ b >= size /\ b % ALIGN = 0
  BY <1>1, UpBounds, UpIsMultiple
<1>3. off + b \in Nat /\ (off + b) % ALIGN = 0 /\ off + size <= off + b
  BY <1>1, <1>2, NextMultiple
<1>4. a <= off + b
  BY <1>1, <1>3, UpIsLeast
<1>5. a - off \in Nat /\ size <= a - off
  BY <1>2
<1>6. (a - off) % ALIGN = 0
  <2>1. PICK k \in Nat : a = k * ALIGN
    BY <1>1, <1>2, Multiples
  <2>2. PICK l \in Nat : off = l * ALIGN
    BY <1>1, Multiples
  <2>3. a - off = (k - l) * ALIGN
    BY <1>1, <2>1, <2>2
  <2>4. k >= l
    <3>1. CASE k < l
      <4>1. (l - k) * ALIGN > 0
        BY <1>1, <3>1
      <4>2. (l - k) * ALIGN = off - a
        BY <1>1, <2>1, <2>2
      <4> QED
        BY <1>2, <1>5, <4>1, <4>2
    <3> QED
      BY <3>1
  <2>5. k - l \in Nat
    BY <2>4
  <2> QED
    BY <1>1, <1>5, <2>3, <2>5, Multiples
<1>7. b <= a - off
  BY <1>1, <1>5, <1>6, UpIsLeast
<1> QED
  BY <1>2, <1>4, <1>7

(* What the volume with the driver in the early slot holds.                *)
LEMMA InsertIs ==
  ASSUME NEW fv, LaidOut(fv), IsVolume(fv), fv.files # {}, NEW blob,
         NEW l \in fv.files, l.off = Slot(fv),
         \A f \in fv.files : f = l \/ (f.off < Slot(fv) /\ End(f) <= Slot(fv))
  PROVE  \E base :
           /\ DOMAIN base = {"len", "blk", "num", "sum", "files"} /\ base.blk = fv.blk
           /\ base.files = (fv.files \ {l}) \union {Shifted(l, Up(blob.size, ALIGN))}
           /\ Insert(fv, blob) = With(base, blob, Slot(fv), fv.len + Up(Up(blob.size, ALIGN), fv.blk))
<1> DEFINE room == Up(blob.size, ALIGN)
           slot == Slot(fv)
           behind == {[f EXCEPT !.off = @ + room] : f \in {g \in fv.files : g.off >= slot}}
           before == {f \in fv.files : f.off < slot}
           base == [fv EXCEPT !.files = before \union behind]
<1>1. Insert(fv, blob) = With(base, blob, slot, fv.len + Up(room, fv.blk))
  BY DEF Insert, Slot
<1>2. slot \in Nat /\ \A f \in fv.files : f.off \in Nat
  BY LastFile DEF LaidOut
<1>3. {g \in fv.files : g.off >= slot} = {l} /\ before = fv.files \ {l}
  BY <1>2
<1>4. behind = {Shifted(l, room)}
  BY <1>3 DEF Shifted
<1>5. DOMAIN fv = {"len", "blk", "num", "sum", "files"}
  BY DEF IsVolume
<1>6. DOMAIN base = {"len", "blk", "num", "sum", "files"} /\ base.blk = fv.blk /\ base.files = before \union behind
  BY <1>5
<1> HIDE DEF base, behind, before
<1> QED
  BY <1>1, <1>3, <1>4, <1>6

LEMMA InsertedVolume ==
  ASSUME NEW fv, LaidOut(fv), IsVolume(fv), fv.files # {},
         NEW blob, IsFile(blob), blob.size \in Nat, HDR <= blob.size
  PROVE  LET out == Insert(fv, blob)
         IN  LaidOut(out) /\ HeaderOk(out) /\ (BlockMapOk(fv) => BlockMapOk(out))
<1> DEFINE room == Up(blob.size, ALIGN)
           slot == Slot(fv)
           len == fv.len + Up(room, fv.blk)
<1>1. PICK l \in fv.files :
        /\ l.off = slot
        /\ \A f \in fv.files : f = l \/ (f.off < slot /\ End(f) <= slot)
  BY LastFile
<1>2. PICK base :
        /\ DOMAIN base = {"len", "blk", "num", "sum", "files"} /\ base.blk = fv.blk
        /\ base.files = (fv.files \ {l}) \union {Shifted(l, room)}
        /\ Insert(fv, blob) = With(base, blob, slot, len)
  BY <1>1, InsertIs
<1>3. /\ fv.len \in Nat /\ ALIGN \in Nat \ {0} /\ fv.blk \in Nat \ {0} /\ HDR \in Nat \ {0}
      /\ FIRST \in Nat /\ FIRST <= fv.len
  BY VolumeAssumption DEF IsVolume, LaidOut
<1>4. room \in Nat /\ room >= blob.size /\ room % ALIGN = 0
  BY <1>3, UpBounds, UpIsMultiple
<1>5. Up(room, fv.blk) \in Nat /\ Up(room, fv.blk) >= room /\ Up(room, fv.blk) % fv.blk = 0
  BY <1>3, <1>4, UpBounds, UpIsMultiple
<1>6. slot \in Nat /\ slot % ALIGN = 0 /\ FIRST <= slot
  BY LastFile
<1> DEFINE m == Shifted(l, room)
<1>7. m.off = slot + room /\ m.size = l.size /\ l.size \in Nat /\ HDR <= l.size /\ l.off \in Nat
  BY <1>1, ShiftedIs DEF IsVolume, LaidOut
<1>8. End(l) = slot + Up(l.size, ALIGN) /\ End(l) <= fv.len /\ Up(l.size, ALIGN) \in Nat
  BY <1>1, <1>3, <1>6, <1>7, EndShifts, FileEnds, UpBounds DEF End
<1>9. slot + room \in Nat /\ (slot + room) % ALIGN = 0
  <2> HIDE DEF slot, room
  <2>1. slot + room \in Nat
    BY <1>4, <1>6
  <2>2. (slot + room) % ALIGN = 0
    BY <1>3, <1>4, <1>6, NextMultiple
  <2> QED
    BY <2>1, <2>2
<1>10. End(m) = slot + room + Up(l.size, ALIGN)
  BY <1>7, <1>9, EndShifts DEF End
<1>11. Up(slot + blob.size, ALIGN) = slot + room
  BY <1>6, EndShifts
<1> HIDE DEF m, room, slot
<1>12. len \in Nat /\ slot + room <= len /\ End(m) <= len /\ fv.len <= len
  BY <1>3, <1>4, <1>5, <1>6, <1>8, <1>10
<1>13. ASSUME NEW f \in base.files
       PROVE  /\ f.off \in Nat /\ f.size \in Nat /\ f.off % ALIGN = 0
              /\ FIRST <= f.off /\ HDR <= f.size /\ End(f) <= len
              /\ f.off + f.size <= slot \/ slot + blob.size <= f.off
  <2>1. CASE f = m
    BY <1>3, <1>4, <1>6, <1>7, <1>9, <1>12, <2>1
  <2>2. CASE f \in fv.files \ {l}
    <3>1. End(f) <= slot /\ f.off + f.size <= End(f) /\ End(f) \in Nat /\ End(f) <= fv.len
      BY <1>1, <2>2, FileEnds DEF Positions
    <3>2. f.off \in Nat /\ f.size \in Nat /\ f.off % ALIGN = 0 /\ FIRST <= f.off /\ HDR <= f.size
      BY <2>2 DEF LaidOut
    <3>3. f.off + f.size \in Nat
      BY <3>2
    <3>4. f.off + f.size <= slot /\ End(f) <= len
      BY <1>3, <1>6, <1>12, <3>1, <3>3
    <3> QED
      BY <3>2, <3>4
  <2> QED
    BY <1>2, <2>1, <2>2 DEF m
<1>14. ASSUME NEW f \in base.files, NEW g \in base.files
       PROVE  f = g \/ f.off + f.size <= g.off \/ g.off + g.size <= f.off
  <2>1. ASSUME NEW h \in fv.files \ {l} PROVE h.off + h.size <= m.off
    <3>1. End(h) <= slot /\ h.off + h.size <= End(h) /\ End(h) \in Nat /\ h.off \in Nat /\ h.size \in Nat
      BY <1>1, FileEnds DEF Positions
    <3> QED
      BY <1>4, <1>6, <1>7, <3>1
  <2>2. CASE f \in fv.files \ {l} /\ g \in fv.files \ {l}
    BY <2>2 DEF LaidOut
  <2>3. CASE f = m \/ g = m
    BY <1>2, <2>1, <2>3 DEF m
  <2> QED
    BY <1>2, <2>2, <2>3 DEF m
<1>15. LaidOut(With(base, blob, slot, len))
  <2>1. Up(slot + blob.size, ALIGN) <= len
    BY <1>11, <1>12
  <2> HIDE DEF len
  <2>2. \A f \in base.files : /\ f.off \in Nat /\ f.size \in Nat /\ f.off % ALIGN = 0
                              /\ FIRST <= f.off /\ HDR <= f.size /\ End(f) <= len
                              /\ f.off + f.size <= slot \/ slot + blob.size <= f.off
    BY <1>13
  <2>3. \A f, g \in base.files : f = g \/ f.off + f.size <= g.off \/ g.off + g.size <= f.off
    BY <1>14
  <2> QED
    BY <1>2, <1>6, <1>12, <2>1, <2>2, <2>3, PlacedIsLaidOut
<1>16. HeaderOk(With(base, blob, slot, len))
  BY <1>2, WithIs
<1>17. ASSUME BlockMapOk(fv) PROVE BlockMapOk(With(base, blob, slot, len))
  <2>1. fv.len = fv.num * fv.blk /\ fv.num \in Nat
    BY <1>17 DEF BlockMapOk, IsVolume
  <2>2. fv.len % fv.blk = 0
    BY <1>3, <2>1, Multiples
  <2>3. len % fv.blk = 0
    BY <1>3, <1>5, <2>2, NextMultiple
  <2>4. (len \div fv.blk) * fv.blk = len
    BY <1>3, <1>12, <2>3, WholeBlocks
  <2> HIDE DEF len
  <2> QED
    BY <1>2, <2>4, WithIs DEF BlockMapOk
<1> QED
  BY <1>2, <1>15, <1>16, <1>17

LEMMA InsertedFiles ==
  ASSUME NEW fv, LaidOut(fv), IsVolume(fv), fv.files # {},
         NEW blob, IsFile(blob), blob.size \in Nat, HDR <= blob.size
  PROVE  LET out == Insert(fv, blob)
         IN  /\ DOMAIN out = {"len", "blk", "num", "sum", "files"}
             /\ \A f \in out.files : IsFile(f)
<1>1. PICK l \in fv.files :
        /\ l.off = Slot(fv)
        /\ \A f \in fv.files : f = l \/ (f.off < Slot(fv) /\ End(f) <= Slot(fv))
  BY LastFile
<1>2. PICK base :
        /\ DOMAIN base = {"len", "blk", "num", "sum", "files"} /\ base.blk = fv.blk
        /\ base.files = (fv.files \ {l}) \union {Shifted(l, Up(blob.size, ALIGN))}
        /\ Insert(fv, blob) = With(base, blob, Slot(fv), fv.len + Up(Up(blob.size, ALIGN), fv.blk))
  BY <1>1, InsertIs
<1>3. IsFile(Put(blob, Slot(fv)))
  <2> DEFINE moved == [blob EXCEPT !.off = Slot(fv)]
  <2>1. DOMAIN blob = {"guid", "type", "off", "size", "body", "sum", "state"}
    BY DEF IsFile
  <2>2. IsFile(moved)
    BY <2>1 DEF IsFile
  <2>3. Put(blob, Slot(fv)) = [moved EXCEPT !.state = "valid"]
    BY <2>1 DEF Put
  <2> HIDE DEF moved
  <2>4. DOMAIN moved = {"guid", "type", "off", "size", "body", "sum", "state"}
    BY <2>2 DEF IsFile
  <2>5. IsFile([moved EXCEPT !.state = "valid"])
    BY <2>4 DEF IsFile
  <2> QED
    BY <2>3, <2>5
<1>4. \A f \in base.files : IsFile(f)
  BY <1>2, ShiftedIs DEF IsVolume
<1> QED
  BY <1>2, <1>3, <1>4, WithIs

(* Another body in the same place.                                         *)
Stubbed(f) == IF f.guid = "VCN" THEN [f EXCEPT !.body = "stub"] ELSE f

LEMMA StubbedIs ==
  ASSUME NEW f, IsFile(f)
  PROVE  /\ Stubbed(f).off = f.off /\ Stubbed(f).size = f.size /\ Stubbed(f).guid = f.guid
         /\ Stubbed(f).type = f.type /\ Stubbed(f).sum = f.sum /\ Stubbed(f).state = f.state
         /\ f.guid # "VCN" => Stubbed(f) = f
<1>1. DOMAIN f = {"guid", "type", "off", "size", "body", "sum", "state"}
  BY DEF IsFile
<1> QED
  BY <1>1 DEF Stubbed

LEMMA StubOutIs ==
  ASSUME NEW fv, DOMAIN fv = {"len", "blk", "num", "sum", "files"}
  PROVE  /\ StubOut(fv).len = fv.len /\ StubOut(fv).blk = fv.blk /\ StubOut(fv).num = fv.num
         /\ StubOut(fv).sum = fv.sum /\ StubOut(fv).files = {Stubbed(f) : f \in fv.files}
BY DEF StubOut, Stubbed

LEMMA StubVolume ==
  ASSUME NEW fv, LaidOut(fv), DOMAIN fv = {"len", "blk", "num", "sum", "files"},
         \A f \in fv.files : IsFile(f)
  PROVE  LET out == StubOut(fv)
         IN  /\ LaidOut(out) /\ (HeaderOk(fv) => HeaderOk(out)) /\ (BlockMapOk(fv) => BlockMapOk(out))
<1> DEFINE out == StubOut(fv)
<1>1. /\ out.len = fv.len /\ out.blk = fv.blk /\ out.num = fv.num
      /\ out.sum = fv.sum /\ out.files = {Stubbed(f) : f \in fv.files}
  BY StubOutIs
<1>2. \A f \in fv.files : Stubbed(f).off = f.off /\ Stubbed(f).size = f.size /\ End(Stubbed(f)) = End(f)
  BY StubbedIs DEF End
<1> HIDE DEF out
<1>3. \A f \in out.files : /\ f.off \in Nat /\ f.size \in Nat /\ f.off % ALIGN = 0
                           /\ FIRST <= f.off /\ HDR <= f.size /\ End(f) <= out.len
  BY <1>1, <1>2 DEF LaidOut
<1>4. ASSUME NEW f \in out.files, NEW g \in out.files
      PROVE  f = g \/ f.off + f.size <= g.off \/ g.off + g.size <= f.off
  <2>1. PICK f0 \in fv.files : f = Stubbed(f0)
    BY <1>1
  <2>2. PICK g0 \in fv.files : g = Stubbed(g0)
    BY <1>1
  <2>3. f0 = g0 \/ f0.off + f0.size <= g0.off \/ g0.off + g0.size <= f0.off
    BY DEF LaidOut
  <2> QED
    BY <1>2, <2>1, <2>2, <2>3
<1>5. LaidOut(out)
  BY <1>1, <1>3, <1>4 DEF LaidOut
<1>6. (HeaderOk(fv) => HeaderOk(out)) /\ (BlockMapOk(fv) => BlockMapOk(out))
  BY <1>1 DEF HeaderOk, HeaderSum, BlockMapOk
<1> QED
  BY <1>5, <1>6 DEF out

-----------------------------------------------------------------------------
(* What the DXE core dispatches of a volume, it dispatches when a builder  *)
(* has put the driver into it.                                             *)
LEMMA MoreDispatched ==
  ASSUME NEW fv, NEW out, fv.files \subseteq out.files
  PROVE  Dispatched(fv) \subseteq Dispatched(out)
BY DEF Dispatched, Reached

LEMMA AppendedDispatches ==
  ASSUME NEW fv, LaidOut(fv), IsVolume(fv), WalkInnerFv(fv).ok, NEW blob
  PROVE  Dispatched(fv) \subseteq Dispatched(AppendAtEnd(fv, blob))
<1>1. PICK pos : AppendAtEnd(fv, blob) = With(fv, blob, pos, Up(Up(pos + blob.size, ALIGN), fv.blk))
  BY AppendPlace
<1>2. DOMAIN fv = {"len", "blk", "num", "sum", "files"}
  BY DEF IsVolume
<1>3. fv.files \subseteq AppendAtEnd(fv, blob).files
  BY <1>1, <1>2, WithIs
<1> QED
  BY <1>3, MoreDispatched

(* The driver takes up all that the last file has moved by.                *)
LEMMA InsertedDispatches ==
  ASSUME NEW fv, LaidOut(fv), IsVolume(fv), fv.files # {},
         NEW blob, IsFile(blob), blob.size \in Nat, HDR <= blob.size,
         NEW f \in Dispatched(fv)
  PROVE  \E g \in Dispatched(Insert(fv, blob)) : g.guid = f.guid /\ g.body = f.body
<1> DEFINE slot == Slot(fv)
           room == Up(blob.size, ALIGN)
           out == Insert(fv, blob)
           p == Put(blob, slot)
<1>1. PICK l \in fv.files :
        l.off = slot /\ \A g \in fv.files : g = l \/ (g.off < slot /\ End(g) <= slot)
  BY LastFile
<1> DEFINE m == Shifted(l, room)
<1>2. out.files = (fv.files \ {l}) \union {m, p}
  <2>1. PICK base :
          /\ DOMAIN base = {"len", "blk", "num", "sum", "files"} /\ base.blk = fv.blk
          /\ base.files = (fv.files \ {l}) \union {m}
          /\ out = With(base, blob, slot, fv.len + Up(room, fv.blk))
    BY <1>1, InsertIs
  <2> QED
    BY <2>1, WithIs
<1>3. slot \in Nat /\ slot % ALIGN = 0 /\ FIRST \in Nat /\ room \in Nat
  BY LastFile, UpBounds, VolumeAssumption
<1>4. p.off = slot /\ End(p) = slot + room
  <2>1. p.off = slot /\ p.size = blob.size
    BY PutIs
  <2> QED
    BY <1>3, <2>1, EndShifts DEF End
<1>5. m.off = slot + room /\ m.guid = l.guid /\ m.body = l.body /\ m.state = l.state
  BY <1>1, ShiftedIs DEF IsVolume
<1> HIDE DEF out, slot, room, p, m
<1>6. /\ f \in fv.files /\ f.state = "valid" /\ f.off \in Nat
      /\ \A pos \in FIRST..(f.off - 1) : \E g \in fv.files : g.off <= pos /\ pos < End(g)
  BY DEF Dispatched, Reached, LaidOut
<1>7. ASSUME NEW pos \in FIRST..(f.off - 1), pos < slot
      PROVE  \E g \in out.files : g.off <= pos /\ pos < End(g)
  <2>1. PICK g \in fv.files : g.off <= pos /\ pos < End(g)
    BY <1>6
  <2>2. g # l
    BY <1>1, <1>3, <1>7, <2>1
  <2> QED
    BY <1>2, <2>1, <2>2
<1>8. CASE f # l
  <2>1. f \in out.files /\ f.off < slot
    BY <1>1, <1>2, <1>6, <1>8
  <2>2. \A pos \in FIRST..(f.off - 1) : pos < slot
    BY <1>3, <1>6, <2>1
  <2>3. f \in Dispatched(out)
    BY <1>6, <1>7, <2>1, <2>2 DEF Dispatched, Reached
  <2> QED
    BY <2>3 DEF out
<1>9. CASE f = l
  <2>1. ASSUME NEW pos \in FIRST..(m.off - 1)
        PROVE  \E g \in out.files : g.off <= pos /\ pos < End(g)
    <3>1. CASE pos < slot
      <4>1. pos \in FIRST..(f.off - 1)
        BY <1>1, <1>3, <1>9, <3>1
      <4> QED
        BY <1>7, <3>1, <4>1
    <3>2. CASE slot <= pos
      <4>1. pos < slot + room
        BY <1>3, <1>5
      <4> QED
        BY <1>2, <1>4, <3>2, <4>1
    <3> QED
      BY <1>3, <3>1, <3>2
  <2>2. m \in Dispatched(out)
    BY <1>2, <1>5, <1>6, <1>9, <2>1 DEF Dispatched, Reached
  <2> QED
    BY <1>5, <1>9, <2>2 DEF out
<1> QED
  BY <1>8, <1>9

LEMMA StubDispatches ==
  ASSUME NEW fv, DOMAIN fv = {"len", "blk", "num", "sum", "files"}, \A h \in fv.files : IsFile(h),
         NEW f \in Dispatched(fv), f.guid # "VCN"
  PROVE  f \in Dispatched(StubOut(fv))
<1> DEFINE out == StubOut(fv)
<1>1. out.files = {Stubbed(h) : h \in fv.files}
  BY StubOutIs
<1>2. f \in fv.files /\ Stubbed(f) = f
  BY StubbedIs DEF Dispatched, Reached
<1>3. ASSUME NEW pos \in FIRST..(f.off - 1)
      PROVE  \E g \in out.files : g.off <= pos /\ pos < End(g)
  <2>1. PICK h \in fv.files : h.off <= pos /\ pos < End(h)
    BY DEF Dispatched, Reached
  <2>2. Stubbed(h).off = h.off /\ End(Stubbed(h)) = End(h)
    BY StubbedIs DEF End
  <2> QED
    BY <1>1, <2>1, <2>2
<1>4. f \in out.files
  BY <1>1, <1>2
<1> HIDE DEF out
<1> QED
  BY <1>3, <1>4 DEF Dispatched, Reached, out

-----------------------------------------------------------------------------
WritingSteps == {"open", "write", "manifest"}

(* An image whose LZMA header does not give the length of the stream; the  *)
(* O3 builder writes no other, and G10 refuses it.                         *)
Undeclared(img) == img.lzma.outsize # StreamLen(img)

(* What every recapsuled image has.                                        *)
Fields == {"board", "psp", "outer", "cap", "after", "gsz", "lzma", "sections", "fv"}

IsRecapsuled(out, img, psp, fv, csz, outsize) ==
  /\ DOMAIN out = Fields
  /\ out.board = img.board /\ out.psp = psp /\ out.outer = img.outer
  /\ out.gsz = csz - HDR /\ out.cap.csz = csz /\ out.cap.attr = img.cap.attr
  /\ out.cap.head = <<img.cap.attr, csz>>
  /\ out.sections = <<"RAW", "FV">> /\ out.fv = fv
  /\ out.lzma = [params |-> "ours", outsize |-> outsize]

LEMMA RecapsuledIs ==
  ASSUME NEW img, IsImage(img), NEW fv, NEW csz, NEW explicit \in BOOLEAN
  PROVE  IsRecapsuled(Recapsuled(img, fv, csz, explicit), img, img.psp, fv, csz,
                      IF explicit THEN 2 + fv.len ELSE Unknown)
<1> DEFINE outsize == IF explicit THEN 2 + fv.len ELSE Unknown
<1>1. DOMAIN img = Fields /\ DOMAIN img.cap = {"attr", "csz", "head", "body"}
  <2>1. DOMAIN img = Fields
    BY DEF IsImage, Fields
  <2>2. img.cap = [attr |-> img.cap.attr, csz |-> img.cap.csz, head |-> img.cap.head,
                   body |-> img.cap.body]
    BY DEF IsImage
  <2>3. DOMAIN img.cap = {"attr", "csz", "head", "body"}
    BY <2>2
  <2> QED
    BY <2>1, <2>3
<1> DEFINE stream == [img EXCEPT !.sections = <<"RAW", "FV">>, !.fv = fv]
           new == Rewrapped(img, fv, csz, explicit)
           out == Recapsuled(img, fv, csz, explicit)
<1>2. /\ DOMAIN stream = Fields /\ stream.sections = <<"RAW", "FV">> /\ stream.fv = fv
      /\ stream.board = img.board /\ stream.psp = img.psp /\ stream.outer = img.outer
      /\ stream.cap = img.cap
  BY <1>1 DEF Fields
<1>3. IF explicit THEN StreamLen(stream) = outsize ELSE Unknown = outsize
  BY <1>2 DEF StreamLen
<1>4. new = [stream EXCEPT !.lzma = [params |-> "ours", outsize |-> outsize],
                           !.gsz = csz - HDR, !.cap.csz = csz]
  BY <1>3 DEF Rewrapped
<1>5. out = [new EXCEPT !.cap.head = CapsuleHeader(new.cap)]
  BY DEF Recapsuled
<1> HIDE DEF stream, new, out, outsize
<1>6. /\ DOMAIN new = Fields /\ new.sections = <<"RAW", "FV">> /\ new.fv = fv
      /\ new.board = img.board /\ new.psp = img.psp /\ new.outer = img.outer
      /\ new.cap = [img.cap EXCEPT !.csz = csz] /\ new.gsz = csz - HDR
      /\ new.lzma = [params |-> "ours", outsize |-> outsize]
  BY <1>2, <1>4 DEF Fields
<1>7. new.cap.csz = csz /\ new.cap.attr = img.cap.attr /\ DOMAIN new.cap = {"attr", "csz", "head", "body"}
  BY <1>1, <1>6
<1>8. /\ DOMAIN out = Fields /\ out.sections = <<"RAW", "FV">> /\ out.fv = fv
      /\ out.board = img.board /\ out.psp = img.psp /\ out.outer = img.outer
      /\ out.cap = [new.cap EXCEPT !.head = CapsuleHeader(new.cap)] /\ out.gsz = csz - HDR
      /\ out.lzma = [params |-> "ours", outsize |-> outsize]
  BY <1>5, <1>6 DEF Fields
<1>9. out.cap.csz = csz /\ out.cap.attr = img.cap.attr /\ out.cap.head = <<img.cap.attr, csz>>
  BY <1>7, <1>8 DEF CapsuleHeader
<1> QED
  BY <1>8, <1>9 DEF IsRecapsuled, out, outsize


-----------------------------------------------------------------------------
(* What an image of that name is: made by its builder from the dump, or    *)
(* one of the release.                                                     *)
Made(b, n, img) ==
  \/ n \in Attachments /\ img = Release(n)
  \/ /\ n \in AppendedAtEnd
     /\ \E csz \in CapsuleSizes : /\ AppendInputsOk(b, csz)
                                  /\ img = Appended(b, Blob(DriverOf(n)), csz)
  \/ /\ n = "O3"
     /\ \E csz \in CapsuleSizes, blob \in Blobs : /\ O3InputsOk(b, blob, csz)
                                                  /\ img = O3Built(b, blob, csz)

Source(b, n) == IF n \in Attachments THEN AuthorDump ELSE b

(* The volume in it.                                                       *)
VolumeOf(b, n) ==
  CASE n \in {"BROKEN", "FIXED"} -> Insert(AuthorDump.fv, Blob("full"))
    [] n = "STUB" -> StubOut(Insert(AuthorDump.fv, Blob("full")))
    [] n \in AppendedAtEnd -> AppendAtEnd(b.fv, Blob(DriverOf(n)))

LEMMA ADump ==
  ASSUME NEW base \in {s.dump : s \in Setups} \union {AuthorDump}
  PROVE  IsImage(base) /\ LaidOut(base.fv) /\ IsVolume(base.fv) /\ base.fv.len % ALIGN = 0
BY DumpAssumption DEF IsImage, IsVolume

LEMMA BlobIs ==
  ASSUME NEW body
  PROVE  /\ IsFile(Blob(body)) /\ Blob(body).size \in Nat /\ HDR <= Blob(body).size
         /\ Blob(body).guid = "VCN" /\ Blob(body).type = "DRIVER" /\ Blob(body).body = body
         /\ Blob(body).sum = "good" /\ Blob(body).size = BlobSize
BY PipelineAssumption, VolumeAssumption DEF Blob, IsFile

(* The release: the least of the lengths.                                  *)
LEMMA LeastCapsule == Min(CapsuleSizes) \in CapsuleSizes /\ Min(CapsuleSizes) <= Room
<1>1. CapsuleSizes \in SUBSET Nat /\ CapsuleSizes # {}
  BY PipelineAssumption
<1>2. PICK m \in CapsuleSizes : \A x \in CapsuleSizes : m <= x
  BY <1>1, NatMin
<1>3. Min(CapsuleSizes) \in CapsuleSizes
  BY <1>2 DEF Min
<1> QED
  BY <1>3, DumpAssumption

LEMMA ReleaseIs ==
  ASSUME NEW b, NEW n \in Attachments
  PROVE  IsRecapsuled(Release(n), AuthorDump, AuthorDump.psp, VolumeOf(b, n), Min(CapsuleSizes),
                      IF n = "BROKEN" THEN Unknown ELSE 2 + VolumeOf(b, n).len)
<1> DEFINE fv == Insert(AuthorDump.fv, Blob("full"))
           csz == Min(CapsuleSizes)
           fixed == WithExplicitSize(Broken)
           stub == [fixed EXCEPT !.fv = StubOut(@)]
<1> HIDE DEF fv, csz
<1>1. IsRecapsuled(Broken, AuthorDump, AuthorDump.psp, fv, csz, Unknown)
  <2>1. IsImage(AuthorDump)
    BY ADump
  <2>2. Broken = Recapsuled(AuthorDump, fv, csz, FALSE)
    BY DEF Broken, fv, csz
  <2> QED
    BY <2>1, <2>2, RecapsuledIs
<1>2. StreamLen(Broken) = 2 + fv.len
  BY <1>1 DEF StreamLen, IsRecapsuled
<1>3. IsRecapsuled(fixed, AuthorDump, AuthorDump.psp, fv, csz, 2 + fv.len)
  BY <1>1, <1>2 DEF IsRecapsuled, WithExplicitSize, Fields
<1>4. StubOut(fv).len = fv.len
  BY DEF fv, StubOut, Insert, With, Resized
<1> HIDE DEF fixed
<1>5. IsRecapsuled(stub, AuthorDump, AuthorDump.psp, StubOut(fv), csz, 2 + fv.len)
  BY <1>3 DEF IsRecapsuled, Fields
<1>6. CASE n = "BROKEN"
  <2>1. Release(n) = Broken /\ VolumeOf(b, n) = fv
    BY <1>6 DEF Release, VolumeOf, AppendedAtEnd, fv
  <2> QED
    BY <1>1, <1>6, <2>1 DEF csz
<1>7. CASE n = "FIXED"
  <2>1. Release(n) = fixed /\ VolumeOf(b, n) = fv
    BY <1>7 DEF Release, VolumeOf, AppendedAtEnd, fv, fixed
  <2> QED
    BY <1>3, <1>7, <2>1 DEF csz
<1>8. CASE n = "STUB"
  <2>1. Release(n) = [fixed EXCEPT !.fv = StubOut(@)] /\ VolumeOf(b, n) = StubOut(fv)
    BY <1>8 DEF Release, VolumeOf, AppendedAtEnd, fv, fixed
  <2> QED
    BY <1>4, <1>5, <1>8, <2>1 DEF csz
<1> QED
  BY <1>6, <1>7, <1>8 DEF Attachments


(* Every image that a builder makes: where its lengths and sums come from. *)
IsBuilt(b, n, img, csz, psp, fv) ==
  /\ csz \in CapsuleSizes /\ csz <= Room
  /\ IsRecapsuled(img, Source(b, n), psp, fv, csz, IF n \in {"BROKEN", "O3"} THEN Unknown ELSE 2 + fv.len)
  /\ "files" \in DOMAIN fv /\ LaidOut(fv) /\ HeaderOk(fv)
  /\ (BlockMapOk(Source(b, n).fv) => BlockMapOk(fv))
  /\ IF n = "O3" THEN psp.sum = psp.types ELSE psp = Source(b, n).psp /\ fv = VolumeOf(b, n)

LEMMA MadeIs ==
  ASSUME NEW b \in {s.dump : s \in Setups}, NEW n, NEW img, Made(b, n, img)
  PROVE  \E csz, psp, fv : IsBuilt(b, n, img, csz, psp, fv)
<1>n. /\ Attachments = {"BROKEN", "FIXED", "STUB"}
      /\ AppendedAtEnd = {"ACTIVE", "NOOP", "SAFE", "READYBOOT"}
  BY DEF Attachments, AppendedAtEnd
<1>1. CASE n \in Attachments /\ img = Release(n)
  <2> DEFINE fv == AuthorDump.fv
             full == Insert(fv, Blob("full"))
  <2>1. IsVolume(fv) /\ LaidOut(fv) /\ fv.files # {}
    BY ADump, DumpAssumption
  <2>2. IsFile(Blob("full")) /\ Blob("full").size \in Nat /\ HDR <= Blob("full").size
    BY BlobIs
  <2> HIDE DEF fv
  <2>3. LaidOut(full) /\ HeaderOk(full) /\ (BlockMapOk(fv) => BlockMapOk(full))
    BY <2>1, <2>2, InsertedVolume
  <2>d. "files" \in DOMAIN full /\ "files" \in DOMAIN StubOut(full)
    <3>1. "files" \in DOMAIN full
      BY <2>1, <2>2, InsertedFiles
    <3> QED
      BY <3>1 DEF StubOut
  <2>4. /\ LaidOut(StubOut(full)) /\ HeaderOk(StubOut(full))
        /\ (BlockMapOk(fv) => BlockMapOk(StubOut(full)))
    BY <2>1, <2>2, <2>3, InsertedFiles, StubVolume
  <2> HIDE DEF full
  <2>5. VolumeOf(b, n) = full \/ VolumeOf(b, n) = StubOut(full)
    BY <1>1, <1>n DEF VolumeOf, full, fv
  <2>6. Source(b, n) = AuthorDump /\ n # "O3"
    BY <1>1, <1>n DEF Source
  <2>7. IsBuilt(b, n, img, Min(CapsuleSizes), AuthorDump.psp, VolumeOf(b, n))
    BY <1>1, <2>d, <2>3, <2>4, <2>5, <2>6, LeastCapsule, ReleaseIs DEF IsBuilt, fv
  <2> QED
    BY <2>7
<1>2. ASSUME n \in AppendedAtEnd, NEW csz \in CapsuleSizes, AppendInputsOk(b, csz),
             img = Appended(b, Blob(DriverOf(n)), csz)
      PROVE  \E c, psp, fv : IsBuilt(b, n, img, c, psp, fv)
  <2> DEFINE blob == Blob(DriverOf(n))
             fv == AppendAtEnd(b.fv, blob)
  <2>1. IsImage(b) /\ IsVolume(b.fv) /\ LaidOut(b.fv)
    BY ADump
  <2>2. IsFile(blob) /\ blob.size \in Nat /\ HDR <= blob.size
    BY BlobIs
  <2>3. WalkInnerFv(b.fv).ok /\ csz <= Room
    BY <1>2 DEF AppendInputsOk, Fits
  <2>4. LaidOut(fv) /\ HeaderOk(fv) /\ BlockMapOk(fv)
    <3> HIDE DEF blob
    <3> QED
      BY <2>1, <2>2, <2>3, AppendedVolume
  <2>d. "files" \in DOMAIN fv
    BY <2>1 DEF IsVolume, AppendAtEnd, With, Resized
  <2>5. Source(b, n) = b /\ n # "O3" /\ n # "BROKEN" /\ VolumeOf(b, n) = fv
    BY <1>2, <1>n DEF Source, VolumeOf
  <2>6. img = Recapsuled(b, fv, csz, TRUE)
    BY <1>2 DEF Appended
  <2> HIDE DEF fv
  <2>7. IsRecapsuled(img, b, b.psp, fv, csz, 2 + fv.len)
    BY <2>1, <2>6, RecapsuledIs
  <2>8. IsBuilt(b, n, img, csz, b.psp, fv)
    BY <2>d, <2>3, <2>4, <2>5, <2>7 DEF IsBuilt
  <2> QED
    BY <2>8
<1>3. ASSUME n = "O3", NEW csz \in CapsuleSizes, NEW blob \in Blobs, O3InputsOk(b, blob, csz),
             img = O3Built(b, blob, csz)
      PROVE  \E c, psp, fv : IsBuilt(b, n, img, c, psp, fv)
  <2> DEFINE fv == AppendAfterTail(b.fv, blob)
             psp == WithoutLocks(b.psp)
             rest == Recapsuled(b, fv, csz, FALSE)
  <2>1. IsImage(b) /\ IsVolume(b.fv) /\ LaidOut(b.fv) /\ b.fv.len % ALIGN = 0
    BY ADump
  <2>2. IsFile(blob) /\ blob.size \in Nat /\ HDR <= blob.size
    BY DumpAssumption
  <2>3. csz <= Room /\ Up(Up(b.fv.len + blob.size, ALIGN), PAGE) % b.fv.blk = 0
    BY <1>3 DEF O3InputsOk, Fits
  <2>4. LaidOut(fv) /\ HeaderOk(fv) /\ BlockMapOk(fv)
    BY <2>1, <2>2, <2>3, TailVolume
  <2>d. "files" \in DOMAIN fv
    BY <2>1 DEF IsVolume, AppendAfterTail, With, Resized
  <2>5. Source(b, n) = b
    BY <1>3, <1>n DEF Source
  <2>6. psp.sum = psp.types
    BY DEF WithoutLocks
  <2>7. img = [rest EXCEPT !.psp = psp]
    BY <1>3 DEF O3Built
  <2> HIDE DEF fv, psp
  <2>8. IsRecapsuled(rest, b, b.psp, fv, csz, Unknown)
    BY <2>1, RecapsuledIs
  <2> HIDE DEF rest
  <2>9. IsRecapsuled(img, b, psp, fv, csz, Unknown)
    BY <2>7, <2>8 DEF IsRecapsuled, Fields
  <2>10. IsBuilt(b, n, img, csz, psp, fv)
    BY <1>3, <2>d, <2>3, <2>4, <2>5, <2>6, <2>9 DEF IsBuilt
  <2> QED
    BY <2>10
<1> QED
  BY <1>1, <1>2, <1>3 DEF Made

-----------------------------------------------------------------------------
LEMMA BuiltLengths ==
  ASSUME NEW b, NEW n, NEW img, NEW csz, NEW psp, NEW fv, IsBuilt(b, n, img, csz, psp, fv)
  PROVE  StreamLen(img) = 2 + fv.len /\ fv.len \in Nat /\ csz \in Nat /\ csz - HDR \in Nat
<1>1. img.sections = <<"RAW", "FV">> /\ img.fv = fv /\ fv.len \in Nat /\ csz \in CapsuleSizes
  BY DEF IsBuilt, IsRecapsuled, LaidOut
<1>2. StreamLen(img) = 2 + fv.len
  BY <1>1 DEF StreamLen
<1>3. csz \in Nat /\ csz >= HDR /\ HDR \in Nat
  BY <1>1, PipelineAssumption, VolumeAssumption
<1> QED
  BY <1>1, <1>2, <1>3

(* The headers of what is built agree when those of the dump do, and the   *)
(* volume in it is laid out.                                               *)
LEMMA BuiltLoads ==
  ASSUME NEW b, NEW n, NEW img, NEW csz, NEW psp, NEW fv, IsBuilt(b, n, img, csz, psp, fv),
         n # "BROKEN", Loads(Source(b, n)), ~Source(b, n).cap.attr
  PROVE  Loads(IF n = "O3" THEN WithExplicitSize(img) ELSE img)
<1> DEFINE out == IF n = "O3" THEN WithExplicitSize(img) ELSE img
           src == Source(b, n)
<1>1. StreamLen(img) = 2 + fv.len /\ fv.len \in Nat
  BY BuiltLengths
<1>2. /\ out.outer = img.outer /\ out.fv = img.fv /\ out.cap = img.cap /\ out.psp = img.psp
      /\ out.gsz = img.gsz /\ out.sections = img.sections
      /\ out.lzma.outsize = StreamLen(img)
  <2>1. CASE n = "O3"
    <3>1. DOMAIN img = Fields /\ "outsize" \in DOMAIN img.lzma
      BY DEF IsBuilt, IsRecapsuled
    <3>2. out = [img EXCEPT !.lzma.outsize = StreamLen(img)]
      BY <2>1 DEF WithExplicitSize
    <3> QED
      BY <3>1, <3>2 DEF Fields
  <2>2. CASE n # "O3"
    BY <1>1, <2>2 DEF IsBuilt, IsRecapsuled
  <2> QED
    BY <2>1, <2>2
<1> HIDE DEF out, src
<1>3. /\ src.outer = "good" /\ ~src.cap.attr /\ BlockMapOk(src.fv) /\ src.psp.sum = src.psp.types
  BY DEF Loads, src
<1>4. /\ img.outer = src.outer /\ img.cap.attr = src.cap.attr /\ img.gsz = img.cap.csz - HDR
      /\ img.cap.head = CapsuleHeader(img.cap) /\ img.fv = fv /\ img.psp = psp
      /\ img.sections = <<"RAW", "FV">>
  BY DEF IsBuilt, IsRecapsuled, CapsuleHeader, src
<1>5. HeaderOk(fv) /\ BlockMapOk(fv) /\ psp.sum = psp.types
  BY <1>3 DEF IsBuilt, src
<1>6. StreamLen(out) = StreamLen(img) /\ StreamLen(img) # Unknown
  BY <1>1, <1>2 DEF StreamLen, Unknown
<1>7. IsPrefix(<<"RAW", "FV">>, out.sections)
  BY <1>2, <1>4 DEF IsPrefix
<1>8. decompress_inner(out)
  BY <1>2, <1>4, <1>6, <1>7 DEF decompress_inner
<1>9. Loads(out)
  BY <1>2, <1>3, <1>4, <1>5, <1>6, <1>8 DEF Loads
<1> QED
  BY <1>9 DEF out

LEMMA BuiltIsOk ==
  ASSUME NEW b \in {s.dump : s \in Setups}, NEW n, NEW img, Made(b, n, img)
  PROVE  ImageOk(img) /\ LaidOut(img.fv) /\ "files" \in DOMAIN img.fv
<1>1. PICK csz, psp, fv : IsBuilt(b, n, img, csz, psp, fv)
  BY MadeIs
<1>2. StreamLen(img) = 2 + fv.len /\ fv.len \in Nat /\ csz \in Nat /\ csz - HDR \in Nat
  BY <1>1, BuiltLengths
<1>3. /\ img.board = Source(b, n).board /\ img.cap.csz = csz /\ img.gsz = csz - HDR
      /\ img.lzma.outsize \in {Unknown, 2 + fv.len} /\ img.fv = fv
  BY <1>1 DEF IsBuilt, IsRecapsuled
<1>4. csz <= Room /\ Room \in Nat /\ LaidOut(fv) /\ "files" \in DOMAIN fv
  BY <1>1, CapsuleAssumption DEF IsBuilt
<1>5. img.board \in {s.dump.board : s \in Setups} \union {AuthorDump.board}
  BY <1>3 DEF Source
<1>6. csz \in 0..Room
  BY <1>2, <1>4
<1> QED
  BY <1>2, <1>3, <1>4, <1>5, <1>6 DEF ImageOk

(* The length that O3 declares is unknown.                                 *)
LEMMA O3IsUndeclared ==
  ASSUME NEW b \in {s.dump : s \in Setups}, NEW img, Made(b, "O3", img)
  PROVE  Undeclared(img)
<1>1. PICK csz, psp, fv : IsBuilt(b, "O3", img, csz, psp, fv)
  BY MadeIs
<1>2. StreamLen(img) = 2 + fv.len /\ fv.len \in Nat /\ img.lzma.outsize = Unknown
  BY <1>1, BuiltLengths DEF IsBuilt, IsRecapsuled
<1> QED
  BY <1>2 DEF Undeclared, Unknown

-----------------------------------------------------------------------------
(* The gates, when none fails.                                             *)
LEMMA NoGateFails ==
  ASSUME NEW b, NEW c, NEW off, NEW efi, NEW winHi, Gates(b, c, off, efi, winHi) = {}
  PROVE  LET inv == WalkFfs(c.fv).inv
             nf == Named(inv, "VCN")
         IN  /\ WalkFfs(c.fv).ok /\ G8(b, c, winHi) /\ G10(b, c)
             /\ HasVcn(inv) /\ nf.state = "valid" /\ nf.body = efi
<1> DEFINE wb == WalkFfs(b.fv)
           wc == WalkFfs(c.fv)
           new == HasVcn(wc.inv)
           nf == Named(wc.inv, "VCN")
           Unless(ok, gate) == IF ok THEN {} ELSE {gate}
           raised == \/ ~PreflightReads(b) \/ ~PreflightReads(c)
                     \/ ~HeaderOk(b.fv) \/ ~HeaderOk(c.fv) \/ ~wb.ok \/ ~wc.ok
                     \/ new /\ ~pe_check(nf, off)
           gates == UNION {Unless(G1(b, c, winHi), "G1"), Unless(G8(b, c, winHi), "G8"),
                           Unless(G2(b, c), "G2"), Unless(G3(wb.inv, wc.inv), "G3"),
                           Unless(new /\ G4(nf, off), "G4"), Unless(new /\ nf.body = efi, "G5"),
                           Unless(G7(wb.free, wc.free), "G7"),
                           Unless(new /\ G9(wc.inv, off), "G9"), Unless(G10(b, c), "G10")}
<1>1. Gates(b, c, off, efi, winHi) = IF raised THEN {"raised"} ELSE gates
  BY DEF Gates
<1>2. ~raised /\ gates = {}
  <2> HIDE DEF raised, gates
  <2> QED
    BY <1>1
<1>3. wc.ok
  BY <1>2
<1>4. /\ Unless(G8(b, c, winHi), "G8") = {} /\ Unless(new /\ G4(nf, off), "G4") = {}
      /\ Unless(new /\ nf.body = efi, "G5") = {} /\ Unless(G10(b, c), "G10") = {}
  <2> HIDE DEF wb, wc, new, nf, Unless
  <2> QED
    BY <1>2
<1>5. G8(b, c, winHi) /\ G10(b, c) /\ new /\ G4(nf, off) /\ nf.body = efi
  <2> HIDE DEF wb, wc, new, nf
  <2> QED
    BY <1>4
<1> QED
  BY <1>3, <1>5 DEF G4

LEMMA GoIsDeclared ==
  ASSUME NEW b, NEW c, NEW off, NEW efi, NEW winHi, Gates(b, c, off, efi, winHi) = {}
  PROVE  ~Undeclared(c)
BY NoGateFails DEF G10, Undeclared

(* A dict by GUID has the last file of it.                                 *)
LEMMA NamedIs ==
  ASSUME NEW fv, LaidOut(fv), NEW inv \in SUBSET fv.files, NEW guid, \E f \in inv : f.guid = guid
  PROVE  Named(inv, guid) \in inv /\ Named(inv, guid).guid = guid
<1> DEFINE S == {f.off : f \in {g \in inv : g.guid = guid}}
<1>1. S \in SUBSET Nat /\ S # {} /\ fv.len \in Nat /\ \A x \in S : x <= fv.len
  <2>1. ASSUME NEW f \in inv PROVE f.off \in Nat /\ f.off <= fv.len
    <3>1. f.off \in Nat /\ f.off < End(f) /\ End(f) <= fv.len /\ End(f) \in Nat /\ fv.len \in Nat
      BY FileEnds DEF Positions, LaidOut
    <3> QED
      BY <3>1
  <2> QED
    BY <2>1 DEF LaidOut
<1>2. Max(S) \in S /\ \A x \in S : x <= Max(S)
  BY <1>1, MaxIs
<1>3. PICK f \in inv : f.guid = guid /\ f.off = Max(S)
  BY <1>2
<1>4. \A g \in inv : g.guid = guid => g.off <= f.off
  BY <1>2, <1>3
<1> QED
  BY <1>3, <1>4 DEF Named

(* What is built from a dump dispatches all that the dump does; and so do  *)
(* the release's images, for the dump they were made from.                 *)
LEMMA BuiltDispatches ==
  ASSUME NEW b \in {s.dump : s \in Setups}, NEW n, n # "O3", NEW img, Made(b, n, img),
         img.board = b.board, NEW f \in Dispatched(b.fv)
  PROVE  \E g \in Dispatched(img.fv) : g.guid = f.guid /\ g.body = f.body
<1>n. /\ Attachments = {"BROKEN", "FIXED", "STUB"}
      /\ AppendedAtEnd = {"ACTIVE", "NOOP", "SAFE", "READYBOOT"}
  BY DEF Attachments, AppendedAtEnd
<1>1. PICK csz, psp, fv : IsBuilt(b, n, img, csz, psp, fv)
  BY MadeIs
<1>2. img.fv = VolumeOf(b, n) /\ img.board = Source(b, n).board
  BY <1>1 DEF IsBuilt, IsRecapsuled
<1>3. CASE n \in AppendedAtEnd
  <2>1. WalkInnerFv(b.fv).ok
    BY <1>3, <1>n DEF Made, AppendInputsOk
  <2>2. img.fv = AppendAtEnd(b.fv, Blob(DriverOf(n)))
    BY <1>2, <1>3, <1>n DEF VolumeOf
  <2>3. LaidOut(b.fv) /\ IsVolume(b.fv)
    BY ADump
  <2>4. f \in Dispatched(img.fv)
    BY <2>1, <2>2, <2>3, AppendedDispatches
  <2> QED
    BY <2>4
<1>4. CASE n \in Attachments
  <2> DEFINE full == Insert(AuthorDump.fv, Blob("full"))
  <2>1. b = AuthorDump
    <3>1. b.board = AuthorDump.board
      BY <1>2, <1>4 DEF Source
    <3> QED
      BY <3>1, DumpAssumption
  <2>2. LaidOut(b.fv) /\ IsVolume(b.fv) /\ b.fv.files # {} /\ f.guid # "VCN"
    <3>1. f \in b.fv.files
      BY DEF Dispatched, Reached
    <3> QED
      BY <2>1, <3>1, ADump, DumpAssumption DEF HasVcn
  <2>3. IsFile(Blob("full")) /\ Blob("full").size \in Nat /\ HDR <= Blob("full").size
    BY BlobIs
  <2>4. PICK g \in Dispatched(full) : g.guid = f.guid /\ g.body = f.body
    BY <2>1, <2>2, <2>3, InsertedDispatches
  <2>5. g \in Dispatched(StubOut(full))
    <3>1. DOMAIN full = {"len", "blk", "num", "sum", "files"} /\ \A h \in full.files : IsFile(h)
      BY <2>1, <2>2, <2>3, InsertedFiles
    <3> HIDE DEF full
    <3> QED
      BY <2>2, <2>4, <3>1, StubDispatches
  <2>6. img.fv = full \/ img.fv = StubOut(full)
    BY <1>2, <1>4, <1>n DEF VolumeOf
  <2> QED
    BY <2>4, <2>5, <2>6
<1> QED
  BY <1>3, <1>4 DEF Made

-----------------------------------------------------------------------------
(* The files of a volume are finitely many: no two begin at one place.     *)
LEMMA FilesFinite ==
  ASSUME NEW fv, LaidOut(fv)
  PROVE  IsFiniteSet(fv.files) /\ Cardinality(fv.files) \in Nat
<1> DEFINE at == [f \in fv.files |-> f.off]
<1>1. fv.len \in Nat /\ 0 \in Int
  BY DEF LaidOut
<1>2. \A f \in fv.files : f.off \in 0..fv.len
  <2> SUFFICES ASSUME NEW f \in fv.files PROVE f.off \in 0..fv.len
    OBVIOUS
  <2>1. f.off \in Nat /\ f.off < End(f) /\ End(f) <= fv.len /\ End(f) \in Nat
    BY FileEnds DEF Positions
  <2> QED
    BY <1>1, <2>1
<1>3. \A f, g \in fv.files : f.off = g.off => f = g
  <2> SUFFICES ASSUME NEW f \in fv.files, NEW g \in fv.files, f.off = g.off, f # g PROVE FALSE
    OBVIOUS
  <2>1. /\ f.off \in Nat /\ f.size \in Nat /\ HDR <= f.size
        /\ g.off \in Nat /\ g.size \in Nat /\ HDR <= g.size /\ HDR \in Nat \ {0}
    BY VolumeAssumption DEF LaidOut
  <2>2. f.off + f.size <= g.off \/ g.off + g.size <= f.off
    BY DEF LaidOut
  <2> QED
    BY <2>1, <2>2
<1>4. at \in Injection(fv.files, 0..fv.len)
  BY <1>2, <1>3 DEF Injection, IsInjective
<1>5. IsFiniteSet(0..fv.len)
  BY <1>1, FS_Interval
<1> HIDE DEF at
<1>6. IsFiniteSet(fv.files)
  BY <1>4, <1>5, FS_Injection
<1> QED
  BY <1>6, FS_CardinalityType

(* As many GUIDs as files: no two files of one.                            *)
LEMMA DistinctGuids ==
  ASSUME NEW S, IsFiniteSet(S), ~(Cardinality(Guids(S)) < Cardinality(S))
  PROVE  \A f, g \in S : f.guid = g.guid => f = g
<1> DEFINE of == [f \in S |-> f.guid]
           T == Guids(S)
<1>1. of \in Surjection(S, T)
  BY DEF Surjection, Guids
<1>2. IsFiniteSet(T) /\ Cardinality(T) <= Cardinality(S)
      /\ (Cardinality(T) = Cardinality(S) <=> of \in Injection(S, T))
  <2> HIDE DEF of, T
  <2> QED
    BY <1>1, FS_Surjection
<1>3. Cardinality(T) \in Nat /\ Cardinality(S) \in Nat
  <2> HIDE DEF T
  <2> QED
    BY <1>2, FS_CardinalityType
<1>4. of \in Injection(S, T)
  <2> HIDE DEF of
  <2>1. ~(Cardinality(T) < Cardinality(S))
    OBVIOUS
  <2> HIDE DEF T
  <2> QED
    BY <1>2, <1>3, <2>1
<1> QED
  BY <1>4 DEF Injection, IsInjective

(* The same files elsewhere, and one of another GUID: one more.            *)
LEMMA OneMore ==
  ASSUME NEW S, IsFiniteSet(S), \A f, g \in S : f.guid = g.guid => f = g,
         NEW m, DOMAIN m = S, \A f \in S : m[f].guid = f.guid,
         NEW p, \A f \in S : f.guid # p.guid
  PROVE  LET T == {m[f] : f \in S} \union {p}
         IN  Cardinality(T) = Cardinality(S) + 1
<1> DEFINE M == {m[f] : f \in S}
           fn == [f \in S |-> m[f]]
<1>1. fn \in Injection(S, M) /\ fn \in Surjection(S, M)
  BY DEF Injection, IsInjective, Surjection
<1>2. IsFiniteSet(M) /\ Cardinality(M) = Cardinality(S)
  <2> HIDE DEF fn, M
  <2> QED
    BY <1>1, FS_Surjection
<1>3. p \notin M
  OBVIOUS
<1> HIDE DEF M
<1>4. Cardinality(M \cup {p}) = Cardinality(M) + 1
  BY <1>2, <1>3, FS_AddElement
<1> QED
  BY <1>2, <1>4 DEF M

-----------------------------------------------------------------------------
(* Where the last file of a volume ends, or the first would begin; and a   *)
(* volume without a gap up to there.                                       *)
LastEnd(fv, e) ==
  e \in {FIRST} \union {End(f) : f \in fv.files} /\ \A f \in fv.files : End(f) <= e
Covered(fv, e) ==
  \A pos \in FIRST..(e - 1) : \E g \in fv.files : g.off <= pos /\ pos < End(g)
FreeTail(fv, e) == IF e + HDR > fv.len THEN 0 ELSE fv.len - e

(* Behind the last file the preflight's walk finds the free tail, when it  *)
(* comes to every file.                                                    *)
LEMMA WalkFree ==
  ASSUME NEW fv, LaidOut(fv), NEW types, NEW skipGaps \in BOOLEAN, ~skipGaps, NEW at,
         IsWalk(at, fv, types, skipGaps),
         Known(fv, types), NEW e, LastEnd(fv, e),
         NEW pos, Clean(fv, pos), FIRST <= pos, pos <= e, Adjoining(fv, pos) = Ahead(fv, pos)
  PROVE  at[pos].free = FreeTail(fv, e)
<1> DEFINE N == fv.len + ALIGN
           Meant(q) == q \in Positions(fv) /\ Clean(fv, q) /\ FIRST <= q /\ q <= e
                       /\ Adjoining(fv, q) = Ahead(fv, q)
           tail == IF e + HDR > fv.len THEN 0 ELSE fv.len - e
           Wrong(q) == Meant(q) /\ at[q].free # tail
           T == {k \in Nat : Wrong(N - k)}
<1>k. /\ \A f \in fv.files : f.type \in types /\ f.sum = "good"
      /\ e \in {FIRST} \union {End(f) : f \in fv.files} /\ \A f \in fv.files : End(f) <= e
  BY DEF Known, LastEnd
<1>n. /\ N \in Nat /\ Positions(fv) = 0..N /\ fv.len \in Nat
      /\ HDR \in Nat \ {0} /\ ALIGN \in Nat \ {0} /\ FIRST \in Nat
  BY VolumeAssumption DEF LaidOut, Positions
<1>e. e \in Nat /\ FIRST <= e
  <2>1. \A f \in fv.files : End(f) \in Nat /\ FIRST <= End(f)
    <3> SUFFICES ASSUME NEW f \in fv.files PROVE End(f) \in Nat /\ FIRST <= End(f)
      OBVIOUS
    <3>1. f.off \in Nat /\ f.off < End(f) /\ End(f) \in Positions(fv) /\ FIRST <= f.off
      BY FileEnds DEF LaidOut
    <3> QED
      BY <1>n, <3>1
  <2> QED
    BY <1>n, <1>k, <2>1
<1>f. \A q : Clean(fv, q) => Finds(at, fv, types, skipGaps, q)
  BY WalkFinds
<1> HIDE DEF N
<1>1. ASSUME NEW q, Meant(q), \A r : r > q => ~Wrong(r) PROVE at[q].free = tail
  <2>0. q \in Positions(fv) /\ q \in Nat /\ q <= e
    BY <1>n, <1>1
  <2>1. at[q] = Found(at, fv, types, skipGaps, q)
    BY <2>0 DEF IsWalk
  <2>2. CASE q + HDR > fv.len
    <3>1. at[q].free = 0
      BY <2>1, <2>2 DEF Found
    <3>2. e + HDR > fv.len
      BY <1>n, <1>e, <2>0, <2>2
    <3> QED
      BY <3>1, <3>2
  <2>3. CASE ~(q + HDR > fv.len) /\ FileAt(fv, types, q) # {}
    <3> DEFINE f == CHOOSE f \in FileAt(fv, types, q) : TRUE
    <3>1. f \in fv.files /\ f.off = q
      BY <2>3 DEF FileAt
    <3>2. Found(at, fv, types, skipGaps, q) =
            [at[Up(f.off + f.size, ALIGN)] EXCEPT !.inv = at[Up(f.off + f.size, ALIGN)].inv \union {f}]
      BY <2>3 DEF Found
    <3> HIDE DEF f
    <3>3. at[q] = [at[End(f)] EXCEPT !.inv = at[End(f)].inv \union {f}]
      BY <2>1, <3>2 DEF End
    <3>4. End(f) \in Positions(fv) /\ End(f) > q /\ Clean(fv, End(f)) /\ End(f) <= e /\ End(f) \in Nat
      BY <1>n, <1>k, <3>1, <1>1, FileEnds, CleanAfterFile
    <3>5. FIRST <= End(f)
      BY <1>n, <1>1, <2>0, <3>4
    <3>6. /\ Adjoining(fv, q) = {f} \union Adjoining(fv, End(f))
          /\ Ahead(fv, q) = {f} \union Ahead(fv, End(f))
      <4>1. \A skip \in BOOLEAN : Seen(fv, skip, q) = {f} \union Seen(fv, skip, End(f))
        BY <1>1, <3>1, SeenFromFile
      <4> QED
        BY <4>1 DEF Seen
    <3>7. f \notin Ahead(fv, End(f)) /\ Adjoining(fv, End(f)) \subseteq Ahead(fv, End(f))
      BY <2>0, <3>1, <3>4 DEF Ahead, Adjoining
    <3>8. Adjoining(fv, End(f)) = Ahead(fv, End(f))
      BY <1>1, <3>6, <3>7
    <3>9. at[End(f)].free = tail
      BY <1>1, <3>4, <3>5, <3>8
    <3>10. DOMAIN at[End(f)] = {"inv", "free", "ok"}
      BY <1>f, <3>4 DEF Finds
    <3> QED
      BY <3>3, <3>9, <3>10
  <2>4. CASE ~(q + HDR > fv.len) /\ FileAt(fv, types, q) = {} /\ ~Erased(fv, q)
    <3>1. at[q] = [inv |-> {}, free |-> 0, ok |-> FALSE]
      BY <2>1, <2>4 DEF Found
    <3>2. Finds(at, fv, types, skipGaps, q)
      BY <1>1, <1>f
    <3>3. \A f \in Seen(fv, skipGaps, q) : f \in fv.files
      BY DEF Seen, Adjoining, Ahead
    <3>4. at[q].ok = TRUE
      BY <1>k, <3>2, <3>3 DEF Finds
    <3>5. at[q].ok = FALSE
      BY <3>1
    <3> QED
      BY <3>4, <3>5
  <2>5. CASE ~(q + HDR > fv.len) /\ FileAt(fv, types, q) = {} /\ Erased(fv, q)
    <3>1. at[q] = [inv |-> {}, free |-> fv.len - q, ok |-> TRUE]
      BY <2>1, <2>5 DEF Found
    <3>2. q <= fv.len
      BY <1>n, <2>0, <2>5
    <3>3. Ahead(fv, q) = {}
      BY <1>1, <2>5, <3>2, SeenFromGap
    <3>4. ASSUME NEW f \in fv.files PROVE End(f) <= q
      <4>1. f.off \in Nat /\ f.size \in Nat /\ ~(f.off >= q)
        BY <3>3, <3>4 DEF Ahead, LaidOut
      <4>2. f.off + f.size <= q /\ q % ALIGN = 0
        BY <1>1, <4>1 DEF Clean
      <4>3. f.off + f.size \in Nat
        BY <4>1
      <4> QED
        BY <1>n, <2>0, <4>2, <4>3, UpIsLeast DEF End
    <3>5. e = q
      <4>1. e <= q
        BY <1>1, <1>k, <1>n, <2>0, <3>4
      <4> QED
        BY <1>e, <2>0, <4>1
    <3> QED
      BY <2>5, <3>1, <3>5
  <2> QED
    BY <2>2, <2>3, <2>4, <2>5
<1>2. ASSUME T # {} PROVE FALSE
  <2>1. PICK x \in T : \A y \in T : x <= y
    BY <1>2, NatMin
  <2>2. x \in Nat /\ Wrong(N - x)
    BY <2>1
  <2>3. ASSUME NEW r, r > N - x, Wrong(r) PROVE FALSE
    <3>1. r \in 0..N
      BY <1>n, <2>3
    <3>2. N - r \in Nat /\ N - (N - r) = r /\ N - r < x
      BY <1>n, <2>2, <2>3, <3>1
    <3>3. N - r \in T
      BY <2>3, <3>2
    <3> QED
      BY <2>1, <2>2, <3>2, <3>3
  <2> HIDE DEF T
  <2>4. at[N - x].free = tail
    BY <1>1, <2>2, <2>3
  <2> QED
    BY <2>2, <2>4
<1>3. pos \in Positions(fv) /\ N - pos \in Nat /\ N - (N - pos) = pos
  BY <1>n DEF Clean
<1>4. ~Wrong(pos)
  BY <1>2, <1>3
<1>5. Meant(pos)
  BY <1>3
<1> QED
  BY <1>4, <1>5 DEF FreeTail

-----------------------------------------------------------------------------
LEMMA LastEndIs ==
  ASSUME NEW fv, LaidOut(fv), NEW e, LastEnd(fv, e)
  PROVE  e \in Nat /\ FIRST <= e /\ e <= fv.len /\ e % ALIGN = 0 /\ fv.len \in Nat
<1>1. FIRST \in Nat /\ FIRST <= fv.len /\ fv.len \in Nat /\ FIRST % ALIGN = 0
  BY VolumeAssumption DEF LaidOut
<1>2. \A f \in fv.files : /\ End(f) \in Nat /\ FIRST <= End(f) /\ End(f) <= fv.len
                          /\ End(f) % ALIGN = 0
  <2> SUFFICES ASSUME NEW f \in fv.files
               PROVE  /\ End(f) \in Nat /\ FIRST <= End(f) /\ End(f) <= fv.len
                      /\ End(f) % ALIGN = 0
    OBVIOUS
  <2>1. /\ f.off \in Nat /\ f.off < End(f) /\ End(f) <= fv.len /\ End(f) % ALIGN = 0
        /\ FIRST <= f.off /\ End(f) \in Nat
    BY FileEnds DEF LaidOut, Positions
  <2> QED
    BY <1>1, <2>1
<1> QED
  BY <1>1, <1>2 DEF LastEnd

LEMMA LastEndExists ==
  ASSUME NEW fv, LaidOut(fv)
  PROVE  \E e : LastEnd(fv, e)
<1> DEFINE S == {FIRST} \union {End(f) : f \in fv.files}
<1>1. S \in SUBSET Nat /\ S # {} /\ \A x \in S : x <= fv.len
  <2>1. FIRST \in Nat /\ FIRST <= fv.len
    BY VolumeAssumption DEF LaidOut
  <2>2. \A f \in fv.files : End(f) \in Nat /\ End(f) <= fv.len
    BY FileEnds DEF Positions
  <2> QED
    BY <2>1, <2>2
<1>2. fv.len \in Nat
  BY DEF LaidOut
<1>3. Max(S) \in S /\ \A x \in S : x <= Max(S)
  BY <1>1, <1>2, MaxIs
<1> QED
  BY <1>3 DEF LastEnd

(* The DXE core reaches every file where there is no gap.                  *)
LEMMA ReachedIfCovered ==
  ASSUME NEW fv, LaidOut(fv), NEW e, LastEnd(fv, e)
  PROVE  Reached(fv) = fv.files <=> Covered(fv, e)
<1>1. e \in Nat /\ FIRST \in Nat
  BY LastEndIs, VolumeAssumption
<1>2. \A f \in fv.files : f.off \in Nat /\ f.off < End(f) /\ End(f) <= e /\ End(f) \in Nat
  BY FileEnds DEF LastEnd, Positions
<1>3. ASSUME Reached(fv) = fv.files, NEW pos \in FIRST..(e - 1)
      PROVE  \E g \in fv.files : g.off <= pos /\ pos < End(g)
  <2>1. PICK f \in fv.files : e = End(f)
    BY <1>1, <1>3 DEF LastEnd
  <2>2. CASE pos < f.off
    <3>1. pos \in FIRST..(f.off - 1)
      BY <1>1, <1>2, <2>2
    <3>2. f \in Reached(fv)
      BY <1>3
    <3> QED
      BY <3>1, <3>2 DEF Reached
  <2>3. CASE f.off <= pos
    BY <1>1, <1>2, <2>1, <2>3
  <2> QED
    BY <1>1, <1>2, <2>2, <2>3
<1>4. ASSUME Covered(fv, e), NEW f \in fv.files
      PROVE  f \in Reached(fv)
  <2>1. \A pos \in FIRST..(f.off - 1) : pos \in FIRST..(e - 1)
    BY <1>1, <1>2
  <2> QED
    BY <1>4, <2>1 DEF Reached, Covered
<1>5. Reached(fv) \subseteq fv.files
  BY DEF Reached
<1> QED
  BY <1>3, <1>4, <1>5 DEF Covered

(* What the preflight finds in a volume without a gap.                     *)
LEMMA SolidTail ==
  ASSUME NEW fv, LaidOut(fv), Known(fv, PreflightTypes), NEW e, LastEnd(fv, e), NEW at,
         IsWalk(at, fv, PreflightTypes, FALSE), Clean(fv, FIRST), FIRST <= e,
         Adjoining(fv, FIRST) = Ahead(fv, FIRST)
  PROVE  at[FIRST].free = FreeTail(fv, e)
<1>1. FIRST <= FIRST
  BY VolumeAssumption
<1> QED
  BY <1>1, WalkFree, ZenonT(40)

LEMMA SolidWalk ==
  ASSUME NEW fv, LaidOut(fv), Reached(fv) = fv.files, Known(fv, PreflightTypes),
         NEW e, LastEnd(fv, e)
  PROVE  /\ WalkFfs(fv).inv = fv.files /\ WalkFfs(fv).ok = TRUE
         /\ WalkFfs(fv).free = FreeTail(fv, e)
<1>1. WalkFfs(fv).inv = fv.files /\ WalkFfs(fv).ok = TRUE
  BY WalksFind DEF Known
<1>2. PICK at : IsWalk(at, fv, PreflightTypes, FALSE) /\ WalkFfs(fv) = at[FIRST]
  BY WalkExists, WalkIs DEF WalkFfs
<1>3. /\ Clean(fv, FIRST) /\ Ahead(fv, FIRST) = fv.files /\ Adjoining(fv, FIRST) = fv.files
  BY FirstIsClean
<1>4. FIRST <= e
  BY LastEndIs
<1>5. at[FIRST].free = FreeTail(fv, e)
  BY <1>2, <1>3, <1>4, SolidTail
<1> QED
  BY <1>1, <1>2, <1>5

-----------------------------------------------------------------------------
(* A volume and one that a builder made of it: each file moved or left,    *)
(* and the driver between them or behind.                                  *)
SameFile(f, g) ==
  g.guid = f.guid /\ g.type = f.type /\ g.size = f.size /\ g.body = f.body /\ g.sum = f.sum
IsDriver(p, body) ==
  /\ p.guid = "VCN" /\ p.type = "DRIVER" /\ p.size = BlobSize /\ p.body = body
  /\ p.sum = "good" /\ p.state = "valid"

Grown(fv, out, m, p, body) ==
  /\ LaidOut(out) /\ HeaderOk(out) /\ Reached(out) = out.files
  /\ DOMAIN m = fv.files /\ \A f \in fv.files : SameFile(f, m[f])
  /\ out.files = {m[f] : f \in fv.files} \union {p} /\ IsDriver(p, body)
  /\ \A e, o : LastEnd(fv, e) /\ LastEnd(out, o) => out.len - o < FreeTail(fv, e) + 4 * PAGE

GoodBase(fv) ==
  /\ LaidOut(fv) /\ Reached(fv) = fv.files /\ Known(fv, PreflightTypes)
  /\ StockFiles(fv.files) /\ ~HasVcn(fv.files)

(* A dict by GUID has the file itself where there is but one.              *)
LEMMA NamedOnly ==
  ASSUME NEW fv, LaidOut(fv), NEW f \in fv.files,
         \A g \in fv.files : g.guid = f.guid => g = f
  PROVE  Named(fv.files, f.guid) = f
<1>1. fv.files \in SUBSET fv.files /\ \E g \in fv.files : g.guid = f.guid
  OBVIOUS
<1>2. Named(fv.files, f.guid) \in fv.files /\ Named(fv.files, f.guid).guid = f.guid
  BY <1>1, NamedIs
<1> QED
  BY <1>2

LEMMA GrownInventory ==
  ASSUME NEW fv, GoodBase(fv), NEW out, NEW m, NEW p, NEW body, Grown(fv, out, m, p, body)
  PROVE  G3(fv.files, out.files) /\ Named(out.files, "VCN") = p /\ Known(out, PreflightTypes)
<1>1. /\ LaidOut(fv) /\ Known(fv, PreflightTypes) /\ \A f \in fv.files : f.guid # "VCN"
      /\ Cardinality(fv.files) = BaseFiles /\ \A f, g \in fv.files : f.guid = g.guid => f = g
  BY DEF GoodBase, HasVcn, StockFiles
<1>2. /\ LaidOut(out) /\ DOMAIN m = fv.files /\ out.files = {m[f] : f \in fv.files} \union {p}
      /\ p.guid = "VCN" /\ p.type = "DRIVER" /\ p.sum = "good"
  BY DEF Grown, IsDriver
<1>3. \A f \in fv.files : /\ m[f].guid = f.guid /\ m[f].type = f.type /\ m[f].size = f.size
                          /\ m[f].body = f.body /\ m[f].sum = f.sum
  BY DEF Grown, SameFile
<1>4. Cardinality(out.files) = BaseFiles + 1
  <2>1. IsFiniteSet(fv.files)
    BY <1>1, FilesFinite
  <2>2. Cardinality({m[f] : f \in fv.files} \union {p}) = Cardinality(fv.files) + 1
    BY <1>1, <1>2, <1>3, <2>1, OneMore
  <2> QED
    BY <1>1, <1>2, <2>2
<1>5. Guids(out.files) \ Guids(fv.files) = {"VCN"}
  BY <1>1, <1>2, <1>3 DEF Guids
<1>6. ASSUME NEW f \in fv.files
      PROVE  Named(fv.files, f.guid) = f /\ Named(out.files, f.guid) = m[f]
  <2>1. Named(fv.files, f.guid) = f
    BY <1>1, NamedOnly
  <2>2. m[f] \in out.files /\ \A g \in out.files : g.guid = m[f].guid => g = m[f]
    BY <1>1, <1>2, <1>3
  <2>3. Named(out.files, m[f].guid) = m[f]
    BY <1>2, <2>2, NamedOnly
  <2> QED
    BY <1>3, <2>1, <2>3
<1>7. Named(out.files, "VCN") = p
  <2>1. p \in out.files /\ \A g \in out.files : g.guid = p.guid => g = p
    BY <1>1, <1>2, <1>3
  <2> QED
    BY <1>2, <2>1, NamedOnly
<1>8. Known(out, PreflightTypes)
  BY <1>1, <1>2, <1>3 DEF Known, PreflightTypes
<1>9. ASSUME NEW guid \in Guids(fv.files)
      PROVE  /\ guid \in Guids(out.files)
             /\ LET f == Named(fv.files, guid)
                    g == Named(out.files, guid)
                IN  g.body = f.body /\ g.size = f.size /\ g.type = f.type
  <2>1. PICK f \in fv.files : guid = f.guid
    BY DEF Guids
  <2>2. m[f] \in out.files /\ m[f].guid = guid
    BY <1>2, <1>3, <2>1
  <2> QED
    BY <1>3, <1>6, <2>1, <2>2 DEF Guids
<1>10. Cardinality(Guids(out.files) \ Guids(fv.files)) = 1
  BY <1>5, FS_Singleton
<1> QED
  BY <1>1, <1>4, <1>7, <1>8, <1>9, <1>10 DEF G3

(* The driver begins where the file before it ends.                        *)
LEMMA GrownAdjoins ==
  ASSUME NEW out, LaidOut(out), Reached(out) = out.files, NEW p \in out.files
  PROVE  G9(out.files, p.off)
<1> DEFINE B == {g \in out.files : g.off < p.off}
           S == {FIRST} \union {End(f) : f \in B}
<1>1. /\ FIRST \in Nat /\ HDR \in Nat \ {0} /\ ALIGN \in Nat \ {0} /\ out.len \in Nat
      /\ FIRST <= out.len /\ p.off \in Nat /\ p.off % ALIGN = 0 /\ FIRST <= p.off
      /\ p.size \in Nat /\ HDR <= p.size
  BY VolumeAssumption DEF LaidOut
<1>2. ASSUME NEW g \in B PROVE End(g) \in Nat /\ End(g) <= p.off
  <2>1. g.off \in Nat /\ g.size \in Nat /\ g.off < p.off /\ g \in out.files
    BY DEF LaidOut
  <2>2. g.off + g.size <= p.off \/ p.off + p.size <= g.off
    BY <1>1, <2>1 DEF LaidOut
  <2>3. g.off + g.size <= p.off /\ g.off + g.size \in Nat
    BY <1>1, <2>1, <2>2
  <2> QED
    BY <1>1, <2>1, <2>3, UpIsLeast, UpBounds DEF End
<1>3. S \in SUBSET Nat /\ S # {} /\ \A x \in S : x <= p.off
  BY <1>1, <1>2
<1>4. p.off \in S
  <2>1. CASE p.off = FIRST
    BY <2>1
  <2>2. CASE p.off # FIRST
    <3>1. p.off - 1 \in FIRST..(p.off - 1)
      BY <1>1, <2>2
    <3>2. PICK g \in out.files : g.off <= p.off - 1 /\ p.off - 1 < End(g)
      BY <3>1 DEF Reached
    <3>3. g \in B
      <4>1. g.off \in Nat
        BY DEF LaidOut
      <4> QED
        BY <1>1, <3>2, <4>1
    <3>4. End(g) = p.off
      BY <1>1, <1>2, <3>2, <3>3
    <3> QED
      BY <3>3, <3>4
  <2> QED
    BY <2>1, <2>2
<1> HIDE DEF S
<1>5. Max(S) \in S /\ \A x \in S : x <= Max(S)
  BY <1>1, <1>3, MaxIs
<1>6. Max(S) = p.off
  <2>1. Max(S) \in Nat
    BY <1>3, <1>5
  <2> QED
    BY <1>1, <1>3, <1>4, <1>5, <2>1
<1> QED
  BY <1>6 DEF G9, S

(* The gates that look at the inner volume.                                *)
LEMMA GrownPasses ==
  ASSUME NEW fv, GoodBase(fv), NEW out, NEW m, NEW p, NEW body, Grown(fv, out, m, p, body),
         Max({End(f) : f \in out.files}) + HDR <= out.len
  PROVE  /\ WalkFfs(fv).ok = TRUE /\ WalkFfs(out).ok = TRUE
         /\ HasVcn(WalkFfs(out).inv) /\ Named(WalkFfs(out).inv, "VCN") = p
         /\ Named(out.files, "VCN") = p
         /\ G3(WalkFfs(fv).inv, WalkFfs(out).inv) /\ G9(WalkFfs(out).inv, p.off)
         /\ G7(WalkFfs(fv).free, WalkFfs(out).free)
<1>1. LaidOut(fv) /\ Reached(fv) = fv.files /\ Known(fv, PreflightTypes)
  BY DEF GoodBase
<1>2. LaidOut(out) /\ Reached(out) = out.files /\ p \in out.files /\ p.guid = "VCN"
  BY DEF Grown, IsDriver
<1>3. G3(fv.files, out.files) /\ Named(out.files, "VCN") = p /\ Known(out, PreflightTypes)
  BY GrownInventory
<1>4. PICK e : LastEnd(fv, e)
  BY <1>1, LastEndExists
<1>5. /\ WalkFfs(fv).inv = fv.files /\ WalkFfs(fv).ok = TRUE /\ WalkFfs(fv).free = FreeTail(fv, e)
  BY <1>1, <1>4, SolidWalk
<1>6. PICK o : LastEnd(out, o)
  BY <1>2, LastEndExists
<1>7. /\ WalkFfs(out).inv = out.files /\ WalkFfs(out).ok = TRUE /\ WalkFfs(out).free = FreeTail(out, o)
  BY <1>2, <1>3, <1>6, SolidWalk
<1>8. HasVcn(out.files)
  BY <1>2 DEF HasVcn
<1>9. G9(out.files, p.off)
  BY <1>2, GrownAdjoins
<1>10. o = Max({End(f) : f \in out.files})
  <2> DEFINE S == {End(f) : f \in out.files}
  <2>1. S \in SUBSET Nat /\ S # {} /\ \A x \in S : x <= out.len
    BY <1>2, FileEnds DEF Positions
  <2>2. out.len \in Nat
    BY <1>2 DEF LaidOut
  <2>3. Max(S) \in S /\ \A x \in S : x <= Max(S)
    BY <2>1, <2>2, MaxIs
  <2>4. FIRST <= End(p) /\ End(p) \in S /\ FIRST \in Nat
    <3>1. p.off < End(p) /\ FIRST <= p.off /\ p.off \in Nat /\ End(p) \in Nat /\ FIRST \in Nat
      BY <1>2, VolumeAssumption, FileEnds DEF LaidOut, Positions
    <3> QED
      BY <1>2, <3>1
  <2>5. o \in {FIRST} \union S /\ \A x \in S : x <= o
    BY <1>6 DEF LastEnd
  <2> HIDE DEF S
  <2>6. o \in S
    BY <2>1, <2>4, <2>5
  <2>7. o \in Nat /\ Max(S) \in Nat /\ o <= Max(S) /\ Max(S) <= o
    BY <2>1, <2>3, <2>5, <2>6
  <2> QED
    BY <2>7 DEF S
<1>11. G7(WalkFfs(fv).free, WalkFfs(out).free)
  <2>1. o + HDR <= out.len /\ o \in Nat /\ out.len \in Nat /\ HDR \in Nat \ {0}
    BY <1>2, <1>6, <1>10, LastEndIs, VolumeAssumption
  <2>2. FreeTail(out, o) = out.len - o
    BY <2>1 DEF FreeTail
  <2>3. out.len - o < FreeTail(fv, e) + 4 * PAGE
    BY <1>4, <1>6, <2>1 DEF Grown
  <2>4. out.len - o > 0
    BY <2>1
  <2> QED
    BY <1>5, <1>7, <2>2, <2>3, <2>4 DEF G7
<1> QED
  BY <1>3, <1>5, <1>7, <1>8, <1>9, <1>11

-----------------------------------------------------------------------------
LEMMA OneLastEnd ==
  ASSUME NEW fv, LaidOut(fv), NEW e, LastEnd(fv, e), NEW o, LastEnd(fv, o)
  PROVE  e = o /\ FreeTail(fv, e) \in Nat
<1>1. /\ e \in Nat /\ FIRST <= e /\ o \in Nat /\ FIRST <= o /\ fv.len \in Nat /\ e <= fv.len
      /\ HDR \in Nat /\ FIRST \in Nat
  BY LastEndIs, VolumeAssumption
<1>2. e <= o /\ o <= e
  BY <1>1 DEF LastEnd
<1> QED
  BY <1>1, <1>2 DEF FreeTail

(* The driver behind the last file.                                        *)
LEMMA AppendGrown ==
  ASSUME NEW fv, GoodBase(fv), IsVolume(fv), fv.blk + HDR <= 4 * PAGE, NEW body
  PROVE  \E m, p : Grown(fv, AppendAtEnd(fv, Blob(body)), m, p, body)
<1> DEFINE blob == Blob(body)
           out == AppendAtEnd(fv, blob)
<1>1. /\ LaidOut(fv) /\ WalkInnerFv(fv).ok /\ Reached(fv) = fv.files
      /\ DOMAIN fv = {"len", "blk", "num", "sum", "files"} /\ fv.blk \in Nat \ {0}
  <2>1. \A f \in fv.files : f.type \in BuilderTypes /\ f.sum = "good"
    BY DEF GoodBase, Known, PreflightTypes, BuilderTypes
  <2>2. LaidOut(fv) /\ Reached(fv) = fv.files
    BY DEF GoodBase
  <2>3. WalkInnerFv(fv).ok
    BY <2>1, <2>2, WalksFind
  <2> QED
    BY <2>2, <2>3 DEF IsVolume
<1>2. /\ IsFile(blob) /\ blob.size \in Nat /\ HDR <= blob.size /\ blob.size = BlobSize
      /\ blob.guid = "VCN" /\ blob.type = "DRIVER" /\ blob.body = body /\ blob.sum = "good"
  BY BlobIs
<1> HIDE DEF blob
<1>3. PICK pos \in {FIRST} \union {End(f) : f \in fv.files} :
        /\ pos \in Nat /\ pos % ALIGN = 0 /\ FIRST <= pos /\ pos <= fv.len
        /\ \A f \in fv.files : End(f) <= pos
        /\ out = With(fv, blob, pos, Up(Up(pos + blob.size, ALIGN), fv.blk))
  BY <1>1, AppendPlace
<1> DEFINE p == Put(blob, pos)
           m == [f \in fv.files |-> f]
           end == Up(pos + blob.size, ALIGN)
<1>4. LaidOut(out) /\ HeaderOk(out)
  BY <1>1, <1>2, AppendedVolume
<1>5. out.files = fv.files \union {p} /\ out.len = Up(end, fv.blk)
  BY <1>1, <1>3, WithIs
<1>6. IsDriver(p, body) /\ p.off = pos /\ p.size = blob.size
  BY <1>2, PutIs DEF IsDriver
<1>7. End(p) = end
  BY <1>6 DEF End
<1>8. /\ pos + blob.size \in Nat /\ ALIGN \in Nat \ {0} /\ HDR \in Nat \ {0} /\ PAGE \in Nat
      /\ FIRST \in Nat
  BY <1>2, <1>3, VolumeAssumption
<1>9. end \in Nat /\ end >= pos + blob.size
  BY <1>8, UpBounds
<1>10. Up(end, fv.blk) < end + fv.blk
  <2> HIDE DEF end
  <2> QED
    BY <1>1, <1>9, UpBounds
<1> HIDE DEF out, p, end
<1>11. LastEnd(fv, pos)
  BY <1>3 DEF LastEnd
<1>12. LastEnd(out, end)
  <2>1. \A f \in fv.files : End(f) <= end
    <3> SUFFICES ASSUME NEW f \in fv.files PROVE End(f) <= end
      OBVIOUS
    <3>1. End(f) \in Nat /\ End(f) <= pos
      BY <1>1, <1>3, FileEnds DEF Positions
    <3> QED
      BY <1>2, <1>3, <1>9, <3>1
  <2> QED
    BY <1>5, <1>7, <1>9, <2>1 DEF LastEnd
<1>13. Reached(out) = out.files
  <2>1. Covered(fv, pos)
    BY <1>1, <1>11, ReachedIfCovered
  <2>2. ASSUME NEW q \in FIRST..(end - 1)
        PROVE  \E g \in out.files : g.off <= q /\ q < End(g)
    <3>1. CASE q < pos
      <4>1. q \in FIRST..(pos - 1)
        BY <1>3, <1>8, <1>9, <3>1
      <4> QED
        BY <1>5, <2>1, <4>1 DEF Covered
    <3>2. CASE pos <= q
      BY <1>5, <1>6, <1>7, <1>8, <1>9, <3>2
    <3> QED
      BY <1>3, <1>8, <1>9, <3>1, <3>2
  <2> QED
    BY <1>4, <1>12, <2>2, ReachedIfCovered DEF Covered
<1>14. ASSUME NEW e, NEW o, LastEnd(fv, e), LastEnd(out, o)
       PROVE  out.len - o < FreeTail(fv, e) + 4 * PAGE
  <2>1. o = end /\ FreeTail(fv, e) \in Nat
    BY <1>1, <1>4, <1>12, <1>14, OneLastEnd
  <2>2. out.len < end + fv.blk /\ out.len \in Nat
    BY <1>4, <1>5, <1>10 DEF LaidOut
  <2> QED
    BY <1>1, <1>8, <1>9, <2>1, <2>2
<1>15. DOMAIN m = fv.files /\ \A f \in fv.files : SameFile(f, m[f])
  BY DEF SameFile
<1>16. out.files = {m[f] : f \in fv.files} \union {p}
  BY <1>5
<1> HIDE DEF m
<1>17. Grown(fv, out, m, p, body)
  BY <1>4, <1>6, <1>13, <1>14, <1>15, <1>16 DEF Grown
<1> QED
  BY <1>17 DEF out, blob

(* The driver in the early slot.                                           *)
LEMMA InsertGrown ==
  ASSUME NEW fv, GoodBase(fv), IsVolume(fv), fv.files # {}, fv.blk + HDR <= 4 * PAGE, NEW body
  PROVE  \E m, p : Grown(fv, Insert(fv, Blob(body)), m, p, body)
<1> DEFINE blob == Blob(body)
           out == Insert(fv, blob)
           slot == Slot(fv)
           room == Up(blob.size, ALIGN)
<1>1. LaidOut(fv) /\ Reached(fv) = fv.files /\ fv.blk \in Nat \ {0} /\ \A f \in fv.files : IsFile(f)
  BY DEF GoodBase, IsVolume
<1>2. /\ IsFile(blob) /\ blob.size \in Nat /\ HDR <= blob.size /\ blob.size = BlobSize
      /\ blob.guid = "VCN" /\ blob.type = "DRIVER" /\ blob.body = body /\ blob.sum = "good"
  BY BlobIs
<1> HIDE DEF blob
<1>3. PICK l \in fv.files :
        l.off = slot /\ \A f \in fv.files : f = l \/ (f.off < slot /\ End(f) <= slot)
  BY <1>1, LastFile
<1>4. PICK base :
        /\ DOMAIN base = {"len", "blk", "num", "sum", "files"} /\ base.blk = fv.blk
        /\ base.files = (fv.files \ {l}) \union {Shifted(l, room)}
        /\ out = With(base, blob, slot, fv.len + Up(room, fv.blk))
  BY <1>1, <1>3, InsertIs
<1> DEFINE p == Put(blob, slot)
           n == Shifted(l, room)
           m == [f \in fv.files |-> IF f = l THEN n ELSE f]
<1>5. out.files = (fv.files \ {l}) \union {n, p} /\ out.len = fv.len + Up(room, fv.blk)
  BY <1>4, WithIs
<1>6. LaidOut(out) /\ HeaderOk(out)
  BY <1>1, <1>2, InsertedVolume
<1>7. /\ slot \in Nat /\ slot % ALIGN = 0 /\ FIRST <= slot /\ FIRST \in Nat /\ room \in Nat
      /\ room % ALIGN = 0 /\ HDR \in Nat \ {0} /\ PAGE \in Nat /\ fv.len \in Nat
      /\ ALIGN \in Nat \ {0}
  BY <1>1, <1>2, LastFile, UpBounds, UpIsMultiple, VolumeAssumption DEF LaidOut
<1>8. IsDriver(p, body) /\ p.off = slot /\ End(p) = slot + room
  <2>1. p.off = slot /\ p.size = blob.size /\ IsDriver(p, body)
    BY <1>2, PutIs DEF IsDriver
  <2> QED
    BY <1>2, <1>7, <2>1, EndShifts DEF End
<1>9. SameFile(l, n) /\ n.off = slot + room /\ n.size = l.size
  BY <1>1, <1>3, ShiftedIs DEF SameFile
<1>10. End(l) = slot + Up(l.size, ALIGN) /\ Up(l.size, ALIGN) \in Nat /\ End(l) <= fv.len
       /\ End(l) \in Nat
  <2>1. l.off \in Nat /\ l.off % ALIGN = 0 /\ l.size \in Nat /\ l.off = slot
    BY <1>1, <1>3 DEF LaidOut
  <2>2. End(l) <= fv.len /\ End(l) \in Nat
    BY <1>1, FileEnds DEF Positions
  <2> HIDE DEF slot
  <2>3. End(l) = slot + Up(l.size, ALIGN)
    BY <2>1, EndShifts DEF End
  <2>4. Up(l.size, ALIGN) \in Nat
    BY <1>7, <2>1, UpBounds
  <2> QED
    BY <2>2, <2>3, <2>4
<1>11. End(n) = End(l) + room
  <2>1. l.size \in Nat
    BY <1>1 DEF LaidOut
  <2> HIDE DEF slot, room, n
  <2>2. slot + room \in Nat /\ (slot + room) % ALIGN = 0
    <3>1. slot + room \in Nat
      BY <1>7
    <3> QED
      BY <1>7, <3>1, NextMultiple
  <2>3. End(n) = slot + room + Up(l.size, ALIGN)
    BY <1>9, <2>1, <2>2, EndShifts DEF End
  <2> QED
    BY <1>7, <1>10, <2>3
<1>12. Up(room, fv.blk) \in Nat /\ Up(room, fv.blk) < room + fv.blk
  <2> HIDE DEF room
  <2> QED
    BY <1>1, <1>7, UpBounds
<1> HIDE DEF out, p, n, slot, room
<1>13. slot < End(l) /\ \A f \in fv.files : End(f) \in Nat
  <2>1. \A f \in fv.files : f.off < End(f) /\ End(f) \in Nat
    BY <1>1, FileEnds DEF Positions
  <2> QED
    BY <1>3, <2>1
<1>14. LastEnd(fv, End(l))
  <2>1. \A f \in fv.files : End(f) <= End(l)
    BY <1>3, <1>7, <1>10, <1>13
  <2> QED
    BY <2>1 DEF LastEnd
<1>15. LastEnd(out, End(n))
  <2>1. End(p) <= End(n) /\ \A f \in fv.files : End(f) <= End(n)
    <3>1. \A f \in fv.files : End(f) <= End(l)
      BY <1>14 DEF LastEnd
    <3> QED
      BY <1>7, <1>8, <1>10, <1>11, <1>13, <3>1
  <2>2. End(n) <= End(n)
    BY <1>7, <1>10, <1>11
  <2> QED
    BY <1>5, <2>1, <2>2 DEF LastEnd
<1>16. Reached(out) = out.files
  <2>1. Covered(fv, End(l))
    BY <1>1, <1>14, ReachedIfCovered
  <2>2. ASSUME NEW q \in FIRST..(End(n) - 1)
        PROVE  \E g \in out.files : g.off <= q /\ q < End(g)
    <3>0. q \in Nat /\ FIRST <= q /\ q < End(n)
      BY <1>7, <1>10, <1>11
    <3>1. CASE q < slot
      <4>1. q \in FIRST..(End(l) - 1)
        BY <1>7, <1>10, <1>13, <3>0, <3>1
      <4>2. PICK g \in fv.files : g.off <= q /\ q < End(g)
        BY <2>1, <4>1 DEF Covered
      <4>3. g # l
        BY <1>3, <1>7, <3>0, <3>1, <4>2
      <4> QED
        BY <1>5, <4>2, <4>3
    <3>2. CASE slot <= q /\ q < slot + room
      BY <1>5, <1>8, <3>2
    <3>3. CASE slot + room <= q
      BY <1>5, <1>9, <3>0, <3>3
    <3> QED
      BY <1>7, <3>0, <3>1, <3>2, <3>3
  <2> QED
    BY <1>6, <1>15, <2>2, ReachedIfCovered DEF Covered
<1>17. ASSUME NEW e, NEW o, LastEnd(fv, e), LastEnd(out, o)
       PROVE  out.len - o < FreeTail(fv, e) + 4 * PAGE
  <2>1. e = End(l) /\ o = End(n)
    BY <1>1, <1>6, <1>14, <1>15, <1>17, OneLastEnd
  <2>2. out.len - o < (fv.len - End(l)) + fv.blk
    BY <1>1, <1>5, <1>7, <1>10, <1>11, <1>12, <2>1
  <2>3. out.len - o \in Int
    BY <1>5, <1>7, <1>10, <1>11, <1>12, <2>1
  <2>4. CASE End(l) + HDR > fv.len
    <3>1. FreeTail(fv, e) = 0
      BY <2>1, <2>4 DEF FreeTail
    <3> QED
      BY <1>1, <1>7, <1>10, <2>2, <2>3, <2>4, <3>1
  <2>5. CASE ~(End(l) + HDR > fv.len)
    <3>1. FreeTail(fv, e) = fv.len - End(l)
      BY <2>1, <2>5 DEF FreeTail
    <3> QED
      BY <1>1, <1>7, <1>10, <2>2, <2>3, <3>1
  <2> QED
    BY <2>4, <2>5
<1>18. DOMAIN m = fv.files /\ \A f \in fv.files : SameFile(f, m[f])
  BY <1>9 DEF SameFile
<1>19. out.files = {m[f] : f \in fv.files} \union {p}
  <2>1. {m[f] : f \in fv.files} = (fv.files \ {l}) \union {n}
    OBVIOUS
  <2> QED
    BY <1>5, <2>1
<1> HIDE DEF m
<1>20. Grown(fv, out, m, p, body)
  BY <1>6, <1>8, <1>16, <1>17, <1>18, <1>19 DEF Grown
<1> QED
  BY <1>20 DEF out, blob

(* The same driver with another body.                                      *)
LEMMA StubGrown ==
  ASSUME NEW fv, GoodBase(fv), NEW full, DOMAIN full = {"len", "blk", "num", "sum", "files"},
         \A f \in full.files : IsFile(f), NEW m, NEW p, Grown(fv, full, m, p, "full")
  PROVE  \E k, r : Grown(fv, StubOut(full), k, r, "stub")
<1> DEFINE out == StubOut(full)
           k == [f \in fv.files |-> Stubbed(m[f])]
           r == Stubbed(p)
<1>1. /\ LaidOut(full) /\ HeaderOk(full) /\ Reached(full) = full.files
      /\ DOMAIN m = fv.files /\ \A f \in fv.files : SameFile(f, m[f])
      /\ full.files = {m[f] : f \in fv.files} \union {p} /\ IsDriver(p, "full")
  BY DEF Grown
<1>2. LaidOut(out) /\ HeaderOk(out) /\ out.len = full.len /\ out.files = {Stubbed(f) : f \in full.files}
  BY <1>1, StubVolume, StubOutIs
<1>3. \A f \in full.files : Stubbed(f).off = f.off /\ End(Stubbed(f)) = End(f)
  BY StubbedIs DEF End
<1>4. IsDriver(r, "stub")
  <2>1. IsFile(p) /\ p.guid = "VCN"
    BY <1>1 DEF IsDriver
  <2>2. r = [p EXCEPT !.body = "stub"] /\ "body" \in DOMAIN p
    BY <2>1 DEF Stubbed, IsFile
  <2>3. r.body = "stub"
    BY <2>2
  <2> HIDE DEF r
  <2>4. /\ r.guid = p.guid /\ r.type = p.type /\ r.size = p.size /\ r.sum = p.sum
        /\ r.state = p.state
    BY <2>2
  <2> QED
    BY <1>1, <2>3, <2>4 DEF IsDriver
<1>5. \A f \in fv.files : SameFile(f, k[f])
  <2> SUFFICES ASSUME NEW f \in fv.files PROVE SameFile(f, k[f])
    OBVIOUS
  <2>1. f.guid # "VCN" /\ m[f].guid = f.guid /\ m[f] \in full.files
    BY <1>1 DEF GoodBase, HasVcn, SameFile
  <2>2. k[f] = m[f]
    BY <2>1, StubbedIs
  <2> QED
    BY <1>1, <2>2
<1>6. out.files = {k[f] : f \in fv.files} \union {r}
  BY <1>1, <1>2, ZenonT(40)
<1>7. \A o : LastEnd(out, o) <=> LastEnd(full, o)
  <2>1. {End(f) : f \in out.files} = {End(f) : f \in full.files}
    BY <1>2, <1>3
  <2>2. \A o : /\ LastEnd(out, o) <=> o \in {FIRST} \union {End(f) : f \in out.files}
                                      /\ \A x \in {End(f) : f \in out.files} : x <= o
               /\ LastEnd(full, o) <=> o \in {FIRST} \union {End(f) : f \in full.files}
                                       /\ \A x \in {End(f) : f \in full.files} : x <= o
    BY DEF LastEnd
  <2> QED
    BY <2>1, <2>2
<1>8. Reached(out) = out.files
  <2>1. PICK o : LastEnd(full, o)
    BY <1>1, LastEndExists
  <2>2. Covered(full, o)
    BY <1>1, <2>1, ReachedIfCovered
  <2>3. Covered(out, o)
    BY <1>2, <1>3, <2>2 DEF Covered
  <2>4. LastEnd(out, o)
    BY <1>7, <2>1
  <2> QED
    BY <1>2, <2>3, <2>4, ReachedIfCovered
<1>9. \A e, o : LastEnd(fv, e) /\ LastEnd(out, o) => out.len - o < FreeTail(fv, e) + 4 * PAGE
  BY <1>2, <1>7 DEF Grown
<1>10. DOMAIN k = fv.files
  OBVIOUS
<1> HIDE DEF out, k, r
<1>11. Grown(fv, out, k, r, "stub")
  BY <1>2, <1>4, <1>5, <1>6, <1>8, <1>9, <1>10 DEF Grown
<1> QED
  BY <1>11 DEF out

-----------------------------------------------------------------------------
(* What is recapsuled can be decoded.                                      *)
LEMMA RecapsuledDecodes ==
  ASSUME NEW img, NEW src, NEW psp, NEW fv, NEW csz, NEW outsize,
         IsRecapsuled(img, src, psp, fv, csz, outsize), fv.len \in Nat
  PROVE  /\ StreamLen(img) = 2 + fv.len /\ img.lzma.outsize = outsize
         /\ outsize \in {Unknown, 2 + fv.len} => decompress_inner(img)
<1>1. /\ img.sections = <<"RAW", "FV">> /\ img.fv = fv /\ img.gsz = img.cap.csz - HDR
      /\ img.lzma.outsize = outsize
  BY DEF IsRecapsuled
<1>2. StreamLen(img) = 2 + fv.len
  BY <1>1 DEF StreamLen
<1>3. IsPrefix(<<"RAW", "FV">>, img.sections)
  BY <1>1 DEF IsPrefix
<1> QED
  BY <1>1, <1>2, <1>3 DEF decompress_inner

-----------------------------------------------------------------------------
OfGuid(files, guid) == {g \in files : g.guid = guid}

(* A volume with one more file the builders know: what their walk finds.   *)
LEMMA OneMoreFound ==
  ASSUME NEW fv, LaidOut(fv), WalkInnerFv(fv).ok, ~HasVcn(fv.files), NEW out, LaidOut(out),
         NEW p, out.files = fv.files \union {p},
         p.guid = "VCN", p.type = "DRIVER", p.sum = "good"
  PROVE  /\ WalkInnerFv(fv).inv = fv.files
         /\ WalkInnerFv(out).inv = out.files /\ WalkInnerFv(out).ok
         /\ Cardinality(out.files) = Cardinality(fv.files) + 1
         /\ OfGuid(out.files, "VCN") = {p}
         /\ \A f \in fv.files : OfGuid(out.files, f.guid) = OfGuid(fv.files, f.guid)
<1>1. /\ WalkInnerFv(fv).inv = fv.files
      /\ \A f \in fv.files : f.type \in BuilderTypes /\ f.sum = "good"
  BY WalksFind
<1>2. \A f \in out.files : f.type \in BuilderTypes /\ f.sum = "good"
  BY <1>1 DEF BuilderTypes
<1>3. WalkInnerFv(out).inv = out.files /\ WalkInnerFv(out).ok
  BY <1>2, WalksFind
<1>4. \A f \in fv.files : f.guid # "VCN"
  BY DEF HasVcn
<1>5. p \notin fv.files
  BY <1>4
<1>6. Cardinality(out.files) = Cardinality(fv.files) + 1
  BY <1>5, FilesFinite, FS_AddElement
<1>7. /\ OfGuid(out.files, "VCN") = {p}
      /\ \A f \in fv.files : OfGuid(out.files, f.guid) = OfGuid(fv.files, f.guid)
  BY <1>4 DEF OfGuid
<1> QED
  BY <1>1, <1>3, <1>6, <1>7

LEMMA AppendedIs ==
  ASSUME NEW b \in {s.dump : s \in Setups}, NEW csz, AppendInputsOk(b, csz), NEW body
  PROVE  LET img == Appended(b, Blob(body), csz)
         IN  /\ IsRecapsuled(img, b, b.psp, AppendAtEnd(b.fv, Blob(body)), csz,
                             2 + AppendAtEnd(b.fv, Blob(body)).len)
             /\ LaidOut(img.fv) /\ decompress_inner(img)
             /\ \E p : /\ img.fv.files = b.fv.files \union {p}
                       /\ p.guid = "VCN" /\ p.type = "DRIVER" /\ p.sum = "good"
<1> DEFINE blob == Blob(body)
           fv == AppendAtEnd(b.fv, blob)
           img == Appended(b, blob, csz)
<1>1. IsImage(b) /\ IsVolume(b.fv) /\ LaidOut(b.fv) /\ WalkInnerFv(b.fv).ok
  BY ADump DEF AppendInputsOk
<1>2. /\ IsFile(blob) /\ blob.size \in Nat /\ HDR <= blob.size
      /\ blob.guid = "VCN" /\ blob.type = "DRIVER" /\ blob.sum = "good"
  BY BlobIs
<1> HIDE DEF blob
<1>3. LaidOut(fv)
  BY <1>1, <1>2, AppendedVolume
<1>4. PICK pos : fv = With(b.fv, blob, pos, Up(Up(pos + blob.size, ALIGN), b.fv.blk))
  BY <1>1, AppendPlace
<1>5. fv.files = b.fv.files \union {Put(blob, pos)}
  <2> DEFINE old == b.fv
  <2>1. DOMAIN old = {"len", "blk", "num", "sum", "files"}
    BY <1>1 DEF IsVolume
  <2>2. fv = With(old, blob, pos, Up(Up(pos + blob.size, ALIGN), b.fv.blk))
    BY <1>4
  <2> HIDE DEF old, fv
  <2>3. fv.files = old.files \union {Put(blob, pos)}
    BY <2>1, <2>2, WithIs
  <2> QED
    BY <2>3 DEF old
<1>6. img = Recapsuled(b, fv, csz, TRUE)
  BY DEF Appended
<1> HIDE DEF fv, img
<1>7. IsRecapsuled(img, b, b.psp, fv, csz, 2 + fv.len)
  BY <1>1, <1>6, RecapsuledIs
<1>8. decompress_inner(img) /\ img.fv = fv
  <2>1. fv.len \in Nat
    BY <1>3 DEF LaidOut
  <2>2. decompress_inner(img)
    BY <1>7, <2>1, RecapsuledDecodes
  <2> QED
    BY <1>7, <2>2 DEF IsRecapsuled
<1>9. /\ img.fv.files = b.fv.files \union {Put(blob, pos)} /\ Put(blob, pos).guid = "VCN"
      /\ Put(blob, pos).type = "DRIVER" /\ Put(blob, pos).sum = "good"
  BY <1>2, <1>5, <1>8, PutIs
<1> QED
  BY <1>3, <1>7, <1>8, <1>9 DEF fv, img, blob

(* The append builders' verification fails of no stock volume ...          *)
LEMMA AppendVerifies ==
  ASSUME NEW b \in {s.dump : s \in Setups}, NEW csz, AppendInputsOk(b, csz), NEW body
  PROVE  AppendVerified(b, Appended(b, Blob(body), csz)) <=> StockFiles(b.fv.files)
<1> DEFINE img == Appended(b, Blob(body), csz)
           fv == b.fv
           out == img.fv
<1>1. LaidOut(fv) /\ WalkInnerFv(fv).ok
  BY ADump DEF AppendInputsOk
<1>2. ~HasVcn(fv.files)
  <2>1. WalkInnerFv(fv).inv = fv.files
    BY <1>1, WalksFind
  <2> QED
    BY <2>1 DEF AppendInputsOk
<1>3. LaidOut(out) /\ decompress_inner(img)
  BY AppendedIs
<1>4. PICK p : /\ out.files = fv.files \union {p}
               /\ p.guid = "VCN" /\ p.type = "DRIVER" /\ p.sum = "good"
  BY AppendedIs
<1> HIDE DEF img, fv, out
<1>5. /\ WalkInnerFv(fv).inv = fv.files
      /\ WalkInnerFv(out).inv = out.files /\ WalkInnerFv(out).ok
      /\ Cardinality(out.files) = Cardinality(fv.files) + 1
      /\ OfGuid(out.files, "VCN") = {p}
      /\ \A f \in fv.files : OfGuid(out.files, f.guid) = OfGuid(fv.files, f.guid)
  BY <1>1, <1>2, <1>3, <1>4, OneMoreFound, ZenonT(40)
<1>6. Cardinality(OfGuid(out.files, "VCN")) = 1
  BY <1>5, FS_Singleton
<1>7. Cardinality(out.files) = BaseFiles + 1 <=> Cardinality(fv.files) = BaseFiles
  <2>1. Cardinality(fv.files) \in Nat /\ BaseFiles \in Nat
    BY <1>1, FilesFinite, CapsuleAssumption
  <2> QED
    BY <1>5, <2>1
<1>8. (\A f \in fv.files : OfGuid(out.files, f.guid) = {f})
        <=> \A f, g \in fv.files : f.guid = g.guid => f = g
  <2>1. ASSUME \A f \in fv.files : OfGuid(out.files, f.guid) = {f},
               NEW f \in fv.files, NEW g \in fv.files, f.guid = g.guid
        PROVE  f = g
    <3>1. g \in OfGuid(out.files, f.guid)
      BY <1>4, <2>1 DEF OfGuid
    <3> QED
      BY <2>1, <3>1
  <2>2. ASSUME \A f, g \in fv.files : f.guid = g.guid => f = g, NEW f \in fv.files
        PROVE  OfGuid(out.files, f.guid) = {f}
    <3>1. OfGuid(fv.files, f.guid) = {f}
      BY <2>2 DEF OfGuid
    <3> QED
      BY <1>5, <3>1
  <2> QED
    BY <2>1, <2>2
<1>9. AppendVerified(b, img) <=>
        /\ Cardinality(out.files) = BaseFiles + 1
        /\ \A f \in fv.files : OfGuid(out.files, f.guid) = {f}
  BY <1>3, <1>5, <1>6 DEF AppendVerified, OfGuid, fv, out
<1>10. AppendVerified(b, img) <=> StockFiles(fv.files)
  BY <1>7, <1>8, <1>9 DEF StockFiles
<1> QED
  BY <1>10 DEF img, fv

-----------------------------------------------------------------------------
(* The first entry of a type is emptied.                                   *)
LEMMA RemovedIs ==
  ASSUME NEW T, NEW types \in Seq(T), NEW t, \E i \in 1..Len(types) : types[i] = t
  PROVE  \E i \in 1..Len(types) :
           types[i] = t /\ remove_psp_entry(types, t) = [types EXCEPT ![i] = "EMPTY"]
<1> DEFINE I == {i \in 1..Len(types) : types[i] = t}
<1>1. I \in SUBSET Nat /\ I # {}
  OBVIOUS
<1>2. PICK i \in I : \A j \in I : i <= j
  BY <1>1, NatMin
<1>3. Min(I) \in I
  <2> HIDE DEF I
  <2> QED
    BY <1>2 DEF Min
<1>4. remove_psp_entry(types, t) = [types EXCEPT ![Min(I)] = "EMPTY"]
  BY <1>1 DEF remove_psp_entry, SelectInSeq
<1> QED
  BY <1>3, <1>4

(* The loop over the two types.                                            *)
First(types) == remove_psp_entry(types, LOCK_TYPES[1])
Second(types) == remove_psp_entry(First(types), LOCK_TYPES[2])

IsFold(it, types) ==
  it = [s \in SUBSET {1, 2} |->
          IF s = {} THEN types ELSE remove_psp_entry(it[s \ {Max(s)}], LOCK_TYPES[Max(s)])]

LEMMA FoldIs ==
  ASSUME NEW types
  PROVE  FoldLeft(remove_psp_entry, types, LOCK_TYPES)
           = (CHOOSE it : IsFold(it, types))[{1, 2}]
<1>1. DOMAIN LOCK_TYPES = {1, 2}
  BY CapsuleAssumption
<1> QED
  BY <1>1 DEF FoldLeft, MapThenFoldSet, IsFold

LEMMA MaxOfTwo == Max({1}) = 1 /\ Max({2}) = 2 /\ Max({1, 2}) = 2
<1>1. \A S \in {{1}, {2}, {1, 2}} : Max(S) \in S /\ \A x \in S : x <= Max(S)
  <2>1. \A S \in {{1}, {2}, {1, 2}} : S \in SUBSET Nat /\ S # {} /\ \A x \in S : x <= 2
    OBVIOUS
  <2>2. 2 \in Nat
    OBVIOUS
  <2> QED
    BY <2>1, <2>2, MaxIs
<1> QED
  BY <1>1

LEMMA BothRemoved ==
  ASSUME NEW types
  PROVE  FoldLeft(remove_psp_entry, types, LOCK_TYPES) = Second(types)
<1> DEFINE step(it, s) ==
             IF s = {} THEN types ELSE remove_psp_entry(it[s \ {Max(s)}], LOCK_TYPES[Max(s)])
           h == [s \in SUBSET {1, 2} |->
                   IF s = {} THEN types
                   ELSE IF s = {1} THEN First(types)
                   ELSE IF s = {2} THEN remove_psp_entry(types, LOCK_TYPES[2])
                   ELSE Second(types)]
<1>1. SUBSET {1, 2} = {{}, {1}, {2}, {1, 2}}
  OBVIOUS
<1>2. /\ h[{}] = types /\ h[{1}] = First(types)
      /\ h[{2}] = remove_psp_entry(types, LOCK_TYPES[2]) /\ h[{1, 2}] = Second(types)
  BY <1>1
<1>3. /\ {1} \ {Max({1})} = {} /\ {2} \ {Max({2})} = {} /\ {1, 2} \ {Max({1, 2})} = {1}
  BY MaxOfTwo
<1>4. h = [s \in SUBSET {1, 2} |-> h[s]]
  OBVIOUS
<1> HIDE DEF h
<1>5. \A s \in SUBSET {1, 2} : h[s] = step(h, s)
  <2>1. h[{}] = step(h, {})
    BY <1>2
  <2>2. h[{1}] = step(h, {1})
    BY <1>2, <1>3, MaxOfTwo DEF First
  <2>3. h[{2}] = step(h, {2})
    BY <1>2, <1>3, MaxOfTwo
  <2>4. h[{1, 2}] = step(h, {1, 2})
    BY <1>2, <1>3, MaxOfTwo DEF Second
  <2> HIDE DEF step
  <2> QED
    BY <1>1, <2>1, <2>2, <2>3, <2>4
<1>6. IsFold(h, types)
  BY <1>4, <1>5 DEF IsFold
<1> DEFINE it == CHOOSE it : IsFold(it, types)
<1>7. IsFold(it, types)
  BY <1>6
<1> HIDE DEF it
<1>8. \A s \in SUBSET {1, 2} : it[s] = step(it, s)
  BY <1>7 DEF IsFold
<1> HIDE DEF step
<1>9. /\ it[{}] = step(it, {}) /\ it[{1}] = step(it, {1}) /\ it[{1, 2}] = step(it, {1, 2})
  BY <1>1, <1>8
<1>10. it[{}] = types
  BY <1>9 DEF step
<1>11. it[{1}] = First(types)
  BY <1>3, <1>9, <1>10, MaxOfTwo DEF step, First
<1>12. it[{1, 2}] = Second(types)
  BY <1>3, <1>9, <1>11, MaxOfTwo DEF step, Second
<1> QED
  BY <1>12, FoldIs DEF it

(* No lock entry is left, where there was one of each type; and behind the *)
(* window nothing changes, if neither was there.                           *)
LEMMA LocksRemoved ==
  ASSUME NEW psp, psp = [types |-> psp.types, sum |-> psp.sum],
         psp.types \in Seq(ToSet(psp.types)), HasLocks(psp),
         ~(Cardinality(PositionsOf(psp)) > Len(LOCK_TYPES)),
         \A i \in PositionsOf(psp) : ~(i > PspWindow)
  PROVE  PspVerified(psp, WithoutLocks(psp))
<1> DEFINE types == psp.types
           n == Len(types)
           P == PositionsOf(psp)
           s == LOCK_TYPES[1]
           t == LOCK_TYPES[2]
<1>1. /\ DOMAIN LOCK_TYPES = {1, 2} /\ Len(LOCK_TYPES) = 2
      /\ s # t /\ s # "EMPTY" /\ t # "EMPTY" /\ ToSet(LOCK_TYPES) = {s, t}
  <2>1. LOCK_TYPES = <<s, t>> /\ s # t /\ s # "EMPTY" /\ t # "EMPTY"
    BY CapsuleAssumption
  <2> HIDE DEF s, t
  <2>2. DOMAIN LOCK_TYPES = {1, 2} /\ Len(LOCK_TYPES) = 2 /\ LOCK_TYPES[1] = s /\ LOCK_TYPES[2] = t
    BY <2>1
  <2>3. ToSet(LOCK_TYPES) = {s, t}
    BY <2>2 DEF ToSet
  <2> QED
    BY <2>1, <2>2, <2>3
<1>2. types \in Seq(ToSet(types)) /\ n \in Nat /\ DOMAIN types = 1..n
  OBVIOUS
<1>3. \A x \in {s, t} : \E i \in 1..n : types[i] = x
  <2>1. \A x \in {s, t} : x \in ToSet(types)
    BY <1>1 DEF HasLocks
  <2> QED
    BY <1>2, <2>1 DEF ToSet
<1>4. PICK p \in 1..n : types[p] = s /\ First(types) = [types EXCEPT ![p] = "EMPTY"]
  <2> HIDE DEF types
  <2> QED
    BY <1>2, <1>3, RemovedIs DEF First
<1> DEFINE once == First(types)
<1>5. /\ once \in Seq(ToSet(types) \union {"EMPTY"}) /\ Len(once) = n
      /\ \A i \in 1..n : once[i] = IF i = p THEN "EMPTY" ELSE types[i]
  <2> HIDE DEF types
  <2>1. once = [i \in 1..n |-> IF i = p THEN "EMPTY" ELSE types[i]]
    BY <1>2, <1>4
  <2>2. \A i \in 1..n : types[i] \in ToSet(types)
    BY <1>2 DEF ToSet
  <2> HIDE DEF once
  <2>3. once \in [1..n -> ToSet(types) \union {"EMPTY"}]
    BY <2>1, <2>2
  <2> QED
    BY <1>2, <2>1, <2>3
<1> HIDE DEF once
<1>6. \E i \in 1..Len(once) : once[i] = t
  BY <1>1, <1>3, <1>4, <1>5
<1>7. PICK q \in 1..Len(once) :
        once[q] = t /\ remove_psp_entry(once, t) = [once EXCEPT ![q] = "EMPTY"]
  BY <1>5, <1>6, RemovedIs
<1>8. q \in 1..n /\ q # p /\ types[q] = t
  BY <1>1, <1>5, <1>7
<1> DEFINE new == Second(types)
<1>9. /\ DOMAIN new = 1..n
      /\ \A i \in 1..n : new[i] = IF i \in {p, q} THEN "EMPTY" ELSE types[i]
  <2>1. new = [once EXCEPT ![q] = "EMPTY"]
    BY <1>7 DEF Second, once
  <2>2. DOMAIN once = 1..n
    BY <1>5
  <2> HIDE DEF new, types, n
  <2> QED
    BY <1>5, <1>8, <2>1, <2>2
<1>10. P = {i \in 1..n : types[i] \in {s, t}}
  BY <1>1, <1>2 DEF PositionsOf
<1>11. P = {p, q}
  <2>1. IsFiniteSet(1..n) /\ P \in SUBSET (1..n)
    BY <1>2, <1>10, FS_Interval
  <2>2. {p, q} \in SUBSET P
    BY <1>4, <1>8, <1>10
  <2> HIDE DEF P, n, s, t, types
  <2>3. IsFiniteSet(P)
    BY <2>1, FS_Subset
  <2>4. Cardinality(P) \in Nat /\ Cardinality(P) <= 2
    <3>1. ~(Cardinality(P) > Len(LOCK_TYPES))
      BY DEF P
    <3>2. Cardinality(P) \in Nat
      BY <2>3, FS_CardinalityType
    <3> QED
      BY <1>1, <3>1, <3>2
  <2>5. IsFiniteSet({p, q}) /\ Cardinality({p, q}) = 2
    <3>1. IsFiniteSet({p}) /\ Cardinality({p}) = 1
      BY FS_Singleton
    <3> DEFINE one == {p}
    <3>o. q \notin one /\ IsFiniteSet(one) /\ Cardinality(one) = 1
      BY <1>8, <3>1
    <3> HIDE DEF one
    <3>2. Cardinality(one \cup {q}) = 2 /\ IsFiniteSet(one \cup {q})
      <4>1. Cardinality(one \cup {q}) = Cardinality(one) + 1
        BY <3>o, FS_AddElement
      <4>2. IsFiniteSet(one \cup {q})
        BY <3>o, FS_AddElement
      <4> QED
        BY <3>o, <4>1, <4>2
    <3>3. one \cup {q} = {p, q}
      BY DEF one
    <3> QED
      BY <3>2, <3>3
  <2>6. Cardinality({p, q}) <= Cardinality(P) /\ (Cardinality(P) = Cardinality({p, q}) => P = {p, q})
    BY <2>2, <2>3, FS_Subset
  <2> QED
    BY <2>4, <2>5, <2>6
<1>12. /\ WithoutLocks(psp).types = new /\ WithoutLocks(psp).sum = new
  BY BothRemoved DEF WithoutLocks
<1>13. ToSet(new) \intersect {s, t} = {}
  <2>1. \A i \in 1..n : new[i] \notin {s, t}
    <3> HIDE DEF new
    <3> QED
      BY <1>1, <1>9, <1>10, <1>11
  <2> QED
    BY <1>9, <2>1 DEF ToSet
<1>14. \A i \in DOMAIN types : i > PspWindow => new[i] = types[i]
  <2> HIDE DEF new, P
  <2>1. \A i \in P : ~(i > PspWindow)
    BY DEF P
  <2> QED
    BY <1>2, <1>9, <1>11, <2>1
<1> QED
  BY <1>1, <1>12, <1>13, <1>14 DEF PspVerified

-----------------------------------------------------------------------------
(* The O3 builder's verification fails only where a lock entry is there    *)
(* twice or behind the window.                                             *)
LEMMA O3Verifies ==
  ASSUME NEW b \in {s.dump : s \in Setups}, NEW csz, NEW blob \in Blobs, O3InputsOk(b, blob, csz),
         ~(Cardinality(PositionsOf(b.psp)) > Len(LOCK_TYPES)),
         \A i \in PositionsOf(b.psp) : ~(i > PspWindow)
  PROVE  O3Verified(b, O3Built(b, blob, csz))
<1> DEFINE old == b.fv
           fv == AppendAfterTail(b.fv, blob)
           psp == WithoutLocks(b.psp)
           rest == Recapsuled(b, fv, csz, FALSE)
           img == O3Built(b, blob, csz)
           p == Put(blob, b.fv.len)
<1>1. /\ IsImage(b) /\ IsVolume(b.fv) /\ LaidOut(b.fv) /\ b.fv.len % ALIGN = 0
      /\ WalkInnerFv(b.fv).ok
  BY ADump DEF O3InputsOk
<1>2. /\ IsFile(blob) /\ blob.size \in Nat /\ HDR <= blob.size
      /\ blob.guid = "VCN" /\ blob.type = "DRIVER" /\ blob.sum = "good"
  BY DumpAssumption DEF O3InputsOk, prep_blob
<1>3. LaidOut(fv) /\ fv.len \in Nat
  <2>1. LaidOut(fv)
    BY <1>1, <1>2, TailVolume
  <2> QED
    BY <2>1 DEF LaidOut
<1>4. fv.files = old.files \union {p}
  <2>1. DOMAIN old = {"len", "blk", "num", "sum", "files"}
    BY <1>1 DEF IsVolume
  <2>2. fv = With(old, blob, b.fv.len, Up(Up(b.fv.len + blob.size, ALIGN), PAGE))
    BY DEF AppendAfterTail
  <2> HIDE DEF old, fv
  <2> QED
    BY <2>1, <2>2, WithIs
<1>5. p.guid = "VCN" /\ p.type = "DRIVER" /\ p.sum = "good"
  BY <1>2, PutIs
<1>6. img = [rest EXCEPT !.psp = psp]
  BY DEF O3Built
<1> HIDE DEF fv, psp, img
<1>7. IsRecapsuled(rest, b, b.psp, fv, csz, Unknown)
  BY <1>1, RecapsuledIs
<1> HIDE DEF rest, p
<1>8. IsRecapsuled(img, b, psp, fv, csz, Unknown)
  BY <1>6, <1>7 DEF IsRecapsuled, Fields
<1>9. decompress_inner(img) /\ img.fv = fv /\ img.psp = psp
  <2>1. decompress_inner(img)
    BY <1>3, <1>8, RecapsuledDecodes
  <2> QED
    BY <1>8, <2>1 DEF IsRecapsuled
<1>10. ~HasVcn(old.files)
  <2>1. WalkInnerFv(old).inv = old.files
    BY <1>1, WalksFind
  <2> QED
    BY <2>1 DEF O3InputsOk
<1>11. LaidOut(old) /\ WalkInnerFv(old).ok
  BY <1>1
<1> HIDE DEF old
<1>12. /\ WalkInnerFv(old).inv = old.files
       /\ WalkInnerFv(fv).inv = fv.files /\ WalkInnerFv(fv).ok
       /\ Cardinality(fv.files) = Cardinality(old.files) + 1
       /\ OfGuid(fv.files, "VCN") = {p}
  <2>1. LaidOut(old) /\ WalkInnerFv(old).ok /\ ~HasVcn(old.files) /\ LaidOut(fv)
    BY <1>3, <1>10, <1>11
  <2>2. fv.files = old.files \union {p}
    BY <1>4
  <2>3. WalkInnerFv(old).inv = old.files
    BY <2>1, <2>2, <1>5, OneMoreFound
  <2>4. WalkInnerFv(fv).inv = fv.files /\ WalkInnerFv(fv).ok
    BY <2>1, <2>2, <1>5, OneMoreFound
  <2>5. Cardinality(fv.files) = Cardinality(old.files) + 1
    BY <2>1, <2>2, <1>5, OneMoreFound
  <2>6. OfGuid(fv.files, "VCN") = {p}
    BY <2>1, <2>2, <1>5, OneMoreFound, ZenonT(40)
  <2> QED
    BY <2>3, <2>4, <2>5, <2>6
<1>13. Cardinality(OfGuid(fv.files, "VCN")) = 1
  BY <1>12, FS_Singleton
<1>14. PspVerified(b.psp, psp)
  <2> DEFINE dir == b.psp
  <2>1. /\ dir = [types |-> dir.types, sum |-> dir.sum] /\ dir.types \in Seq(ToSet(dir.types))
    BY <1>1 DEF IsImage
  <2>2. HasLocks(dir)
    BY DEF O3InputsOk
  <2>3. /\ ~(Cardinality(PositionsOf(dir)) > Len(LOCK_TYPES))
        /\ \A i \in PositionsOf(dir) : ~(i > PspWindow)
    OBVIOUS
  <2>4. psp = WithoutLocks(dir)
    BY DEF psp
  <2> HIDE DEF dir
  <2>5. PspVerified(dir, psp)
    BY <2>1, <2>2, <2>3, <2>4, LocksRemoved
  <2> QED
    BY <2>5 DEF dir
<1>15. O3Verified(b, img)
  BY <1>9, <1>12, <1>13, <1>14 DEF O3Verified, OfGuid, old
<1> QED
  BY <1>15 DEF img

(* The FIXED builder's never does: BROKEN has a stock volume's files, each *)
(* of a type the builders know, and the driver's.                          *)
LEMMA FixedVerifies ==
  LET new == WithExplicitSize(Release("BROKEN"))
  IN  decompress_inner(new) /\ HasVcn(WalkInnerFv(new.fv).inv)
<1> DEFINE fv == AuthorDump.fv
           blob == Blob("full")
           room == Up(blob.size, ALIGN)
           out == Insert(fv, blob)
           new == Release("FIXED")
<1>1. LaidOut(fv) /\ IsVolume(fv) /\ fv.files # {} /\ Known(fv, BuilderTypes)
  BY ADump, DumpAssumption
<1>2. /\ IsFile(blob) /\ blob.size \in Nat /\ HDR <= blob.size
      /\ blob.guid = "VCN" /\ blob.type = "DRIVER" /\ blob.sum = "good"
  BY BlobIs
<1>3. VolumeOf(AuthorDump, "FIXED") = out
  BY DEF VolumeOf, AppendedAtEnd
<1>4. IsRecapsuled(new, AuthorDump, AuthorDump.psp, out, Min(CapsuleSizes), 2 + out.len)
  <2> HIDE DEF new, out
  <2>1. "FIXED" \in Attachments /\ "FIXED" # "BROKEN"
    BY DEF Attachments
  <2>2. IsRecapsuled(new, AuthorDump, AuthorDump.psp, VolumeOf(AuthorDump, "FIXED"), Min(CapsuleSizes),
                     2 + VolumeOf(AuthorDump, "FIXED").len)
    BY <2>1, ReleaseIs DEF new
  <2> QED
    BY <1>3, <2>2
<1> HIDE DEF fv, blob
<1>5. LaidOut(out) /\ out.len \in Nat
  <2>1. LaidOut(out)
    BY <1>1, <1>2, InsertedVolume
  <2> QED
    BY <2>1 DEF LaidOut
<1>6. PICK l \in fv.files :
        /\ l.off = Slot(fv)
        /\ \A f \in fv.files : f = l \/ (f.off < Slot(fv) /\ End(f) <= Slot(fv))
  BY <1>1, LastFile
<1>7. out.files = ((fv.files \ {l}) \union {Shifted(l, room)}) \union {Put(blob, Slot(fv))}
  <2>1. PICK base :
          /\ DOMAIN base = {"len", "blk", "num", "sum", "files"} /\ base.blk = fv.blk
          /\ base.files = (fv.files \ {l}) \union {Shifted(l, room)}
          /\ out = With(base, blob, Slot(fv), fv.len + Up(Up(blob.size, ALIGN), fv.blk))
    BY <1>1, <1>6, InsertIs
  <2> HIDE DEF out, room
  <2> QED
    BY <2>1, WithIs
<1>8. \A f \in out.files : f.type \in BuilderTypes /\ f.sum = "good"
  <2>1. IsFile(l) /\ l.type \in BuilderTypes /\ l.sum = "good"
    BY <1>1, <1>6 DEF IsVolume, Known
  <2>2. Shifted(l, room).type \in BuilderTypes /\ Shifted(l, room).sum = "good"
    BY <2>1, ShiftedIs
  <2>3. Put(blob, Slot(fv)).type = "DRIVER" /\ Put(blob, Slot(fv)).sum = "good"
    BY <1>2, PutIs
  <2>4. \A f \in fv.files : f.type \in BuilderTypes /\ f.sum = "good"
    BY <1>1 DEF Known
  <2> HIDE DEF out, room
  <2> QED
    BY <1>7, <2>2, <2>3, <2>4 DEF BuilderTypes
<1>9. HasVcn(WalkInnerFv(out).inv)
  <2>1. WalkInnerFv(out).inv = out.files
    BY <1>5, <1>8, WalksFind
  <2>2. Put(blob, Slot(fv)) \in out.files /\ Put(blob, Slot(fv)).guid = "VCN"
    BY <1>2, <1>7, PutIs
  <2> QED
    BY <2>1, <2>2 DEF HasVcn
<1>10. decompress_inner(new)
  BY <1>4, <1>5, RecapsuledDecodes
<1>11. new.fv = out
  BY <1>4 DEF IsRecapsuled
<1>12. WithExplicitSize(Release("BROKEN")) = new
  BY DEF Release, new
<1> QED
  BY <1>9, <1>10, <1>11, <1>12

-----------------------------------------------------------------------------
(* What the preflight says where no gate but G10 can fail.                 *)
LEMMA GatesAre ==
  ASSUME NEW b, NEW c, NEW off, NEW efi, NEW winHi,
         PreflightReads(b), PreflightReads(c), HeaderOk(b.fv), HeaderOk(c.fv),
         WalkFfs(b.fv).ok, WalkFfs(c.fv).ok, HasVcn(WalkFfs(c.fv).inv),
         NEW nf, nf = Named(WalkFfs(c.fv).inv, "VCN"), pe_check(nf, off),
         G1(b, c, winHi), G2(b, c), G3(WalkFfs(b.fv).inv, WalkFfs(c.fv).inv),
         G4(nf, off), nf.body = efi, G7(WalkFfs(b.fv).free, WalkFfs(c.fv).free),
         G9(WalkFfs(c.fv).inv, off)
  PROVE  Gates(b, c, off, efi, winHi) = IF G10(b, c) THEN {} ELSE {"G10"}
<1> DEFINE wb == WalkFfs(b.fv)
           wc == WalkFfs(c.fv)
<1>1. G8(b, c, winHi)
  BY DEF G8
<1>2. wb.ok /\ wc.ok /\ HasVcn(wc.inv) /\ nf = Named(wc.inv, "VCN")
      /\ G3(wb.inv, wc.inv) /\ G7(wb.free, wc.free) /\ G9(wc.inv, off)
  OBVIOUS
<1>3. Gates(b, c, off, efi, winHi) =
        UNION {{}, {}, {}, {}, {}, {}, {}, {}, IF G10(b, c) THEN {} ELSE {"G10"}}
  <2> HIDE DEF wb, wc
  <2> QED
    BY <1>1, <1>2 DEF Gates, wb, wc
<1> QED
  BY <1>3

(* There is room for one more header of a file.                            *)
RoomLeft(fv) == Max({End(f) : f \in fv.files}) + HDR <= fv.len

(* The decoded size is unknown or that of the stream.                      *)
Declared(outsize, fv) == outsize \in {Unknown, 2 + fv.len}

(* A capsule with a grown volume around it.                                *)
LEMMA ImagePasses ==
  ASSUME NEW b, IsImage(b), Loads(b), b.lzma.params = "ours", GoodBase(b.fv),
         NEW out, NEW m, NEW p, NEW body \in Drivers, Grown(b.fv, out, m, p, body),
         RoomLeft(out), NEW c, NEW csz \in Nat, csz <= Room, NEW outsize, Declared(outsize, out),
         IsRecapsuled(c, b, b.psp, out, csz, outsize)
  PROVE  Gates(b, c, Named(c.fv.files, "VCN").off, body, Room)
           = IF outsize = Unknown THEN {"G10"} ELSE {}
<1> DEFINE fv == b.fv
           wb == WalkFfs(b.fv)
           wc == WalkFfs(out)
<1>1. /\ c.board = b.board /\ c.psp = b.psp /\ c.outer = b.outer /\ c.cap.csz = csz
      /\ c.fv = out /\ c.lzma.params = "ours" /\ c.lzma.outsize = outsize
  BY DEF IsRecapsuled
<1>2. /\ LaidOut(out) /\ HeaderOk(out) /\ p \in out.files /\ IsDriver(p, body)
  BY DEF Grown
<1>3. out.len \in Nat
  BY <1>2 DEF LaidOut
<1>4. /\ wb.ok = TRUE /\ wc.ok = TRUE
      /\ HasVcn(wc.inv) /\ Named(wc.inv, "VCN") = p /\ Named(out.files, "VCN") = p
      /\ G3(wb.inv, wc.inv) /\ G9(wc.inv, p.off) /\ G7(wb.free, wc.free)
  BY GrownPasses DEF RoomLeft
<1>5. StreamLen(c) = 2 + out.len /\ decompress_inner(c)
  BY <1>3, RecapsuledDecodes DEF Declared
<1>6. PreflightReads(b) /\ PreflightReads(c) /\ HeaderOk(b.fv) /\ HeaderOk(c.fv)
  BY <1>1, <1>2, <1>5 DEF Loads, PreflightReads
<1>7. G1(b, c, Room) /\ G2(b, c)
  <2>1. b # c
    <3>1. p.guid = "VCN"
      BY <1>2 DEF IsDriver
    <3>2. HasVcn(out.files) /\ ~HasVcn(b.fv.files)
      BY <1>2, <3>1 DEF HasVcn, GoodBase
    <3> QED
      BY <1>1, <3>2
  <2>2. b.cap.csz \in 0..Room /\ Room \in Nat
    BY CapsuleAssumption DEF IsImage
  <2> DEFINE S == {b.cap.csz, c.cap.csz}
  <2>3. S \in SUBSET Nat /\ S # {} /\ \A x \in S : x <= Room
    BY <1>1, <2>2
  <2> HIDE DEF S
  <2>4. Max(S) \in S
    BY <2>2, <2>3, MaxIs
  <2>5. Max(S) <= Room
    BY <2>3, <2>4
  <2> QED
    BY <1>1, <2>1, <2>5 DEF G1, G2, S
<1>8. G4(p, p.off) /\ pe_check(p, p.off) /\ p.body = body
  BY <1>2 DEF IsDriver, G4, pe_check
<1>9. G10(b, c) <=> outsize # Unknown
  BY <1>1, <1>3, <1>5 DEF G10, Unknown, Declared
<1> HIDE DEF wb, wc
<1>10. Gates(b, c, p.off, body, Room) = IF G10(b, c) THEN {} ELSE {"G10"}
  <2>1. /\ WalkFfs(b.fv).ok /\ WalkFfs(c.fv).ok /\ HasVcn(WalkFfs(c.fv).inv)
        /\ p = Named(WalkFfs(c.fv).inv, "VCN")
        /\ G3(WalkFfs(b.fv).inv, WalkFfs(c.fv).inv) /\ G9(WalkFfs(c.fv).inv, p.off)
        /\ G7(WalkFfs(b.fv).free, WalkFfs(c.fv).free)
    BY <1>1, <1>4 DEF wb, wc
  <2> QED
    BY <1>6, <1>7, <1>8, <2>1, GatesAre
<1> QED
  BY <1>1, <1>4, <1>9, <1>10

-----------------------------------------------------------------------------
(* What a release attachment and an appended image have in them: the files *)
(* of a good dump and the driver.                                          *)
LEMMA AttachmentPasses ==
  ASSUME NEW n \in Attachments, Loads(AuthorDump), AuthorDump.lzma.params = "ours",
         Reached(AuthorDump.fv) = AuthorDump.fv.files, Known(AuthorDump.fv, PreflightTypes),
         AuthorDump.fv.blk + HDR <= 4 * PAGE,
         NEW c, c = Release(n), Max({End(f) : f \in c.fv.files}) + HDR <= c.fv.len
  PROVE  Gates(AuthorDump, c, Named(c.fv.files, "VCN").off, BodyOf(n), Room)
           = IF n = "BROKEN" THEN {"G10"} ELSE {}
<1> DEFINE b == AuthorDump
           fv == AuthorDump.fv
           full == Insert(fv, Blob("full"))
           out == VolumeOf(b, n)
           csz == Min(CapsuleSizes)
           outsize == IF n = "BROKEN" THEN Unknown ELSE 2 + out.len
<1>1. /\ IsImage(b) /\ IsVolume(fv) /\ LaidOut(fv) /\ fv.files # {} /\ fv.blk + HDR <= 4 * PAGE
      /\ StockFiles(fv.files) /\ ~HasVcn(fv.files)
  BY ADump, DumpAssumption
<1>2. GoodBase(fv)
  BY <1>1 DEF GoodBase
<1>3. IsRecapsuled(c, b, b.psp, out, csz, outsize)
  BY ReleaseIs
<1>4. csz \in Nat /\ csz <= Room
  BY LeastCapsule, PipelineAssumption
<1>5. BodyOf(n) \in Drivers
  BY DEF BodyOf, AppendedAtEnd, Attachments, Drivers
<1>6. \E m, p : Grown(fv, out, m, p, BodyOf(n))
  <2> HIDE DEF fv
  <2>1. PICK m, p : Grown(fv, full, m, p, "full")
    BY <1>1, <1>2, InsertGrown
  <2>2. CASE n \in {"BROKEN", "FIXED"}
    <3>1. out = full /\ BodyOf(n) = "full"
      BY <2>2 DEF VolumeOf, BodyOf, AppendedAtEnd, fv
    <3> HIDE DEF full, out
    <3> QED
      BY <2>1, <3>1
  <2>3. CASE n = "STUB"
    <3>1. out = StubOut(full) /\ BodyOf(n) = "stub"
      BY <2>3 DEF VolumeOf, BodyOf, AppendedAtEnd, fv
    <3>2. /\ DOMAIN full = {"len", "blk", "num", "sum", "files"}
          /\ \A f \in full.files : IsFile(f)
      BY <1>1, BlobIs, InsertedFiles
    <3> HIDE DEF full, out
    <3>3. \E k, r : Grown(fv, StubOut(full), k, r, "stub")
      BY <1>2, <2>1, <3>2, StubGrown
    <3> QED
      BY <3>1, <3>3
  <2> QED
    BY <2>2, <2>3 DEF Attachments
<1>7. PICK m, p : Grown(fv, out, m, p, BodyOf(n))
  BY <1>6
<1>8. c.fv = out
  BY <1>3 DEF IsRecapsuled
<1>9. Declared(outsize, out) /\ (outsize = Unknown <=> n = "BROKEN")
  <2>1. out.len \in Nat
    BY <1>7 DEF Grown, LaidOut
  <2> HIDE DEF out
  <2> QED
    BY <2>1 DEF Unknown, Declared
<1>10. Loads(b) /\ b.lzma.params = "ours" /\ fv = b.fv
       /\ RoomLeft(out)
  BY <1>8 DEF RoomLeft
<1> HIDE DEF b, fv, out, csz, outsize
<1>11. Gates(b, c, Named(c.fv.files, "VCN").off, BodyOf(n), Room)
         = IF outsize = Unknown THEN {"G10"} ELSE {}
  <2>1. GoodBase(b.fv) /\ Grown(b.fv, out, m, p, BodyOf(n))
    BY <1>2, <1>7, <1>10
  <2> QED
    BY <1>1, <1>3, <1>4, <1>5, <1>9, <1>10, <2>1, ImagePasses
<1> QED
  BY <1>9, <1>11 DEF b

LEMMA AppendedPasses ==
  ASSUME NEW b \in {s.dump : s \in Setups}, NEW n \in AppendedAtEnd, NEW c, Made(b, n, c),
         Loads(b), b.lzma.params = "ours", StockFiles(b.fv.files),
         Reached(b.fv) = b.fv.files, Known(b.fv, PreflightTypes), b.fv.blk + HDR <= 4 * PAGE,
         Max({End(f) : f \in c.fv.files}) + HDR <= c.fv.len
  PROVE  Gates(b, c, Named(c.fv.files, "VCN").off, BodyOf(n), Room) = {}
<1> DEFINE fv == b.fv
           body == DriverOf(n)
           out == AppendAtEnd(b.fv, Blob(DriverOf(n)))
           outsize == 2 + out.len
<1>n. n \notin Attachments /\ n # "O3"
  BY DEF AppendedAtEnd, Attachments
<1>1. PICK csz \in CapsuleSizes : AppendInputsOk(b, csz) /\ c = Appended(b, Blob(body), csz)
  BY <1>n DEF Made
<1>2. IsImage(b) /\ IsVolume(fv) /\ LaidOut(fv)
  BY ADump
<1>3. IsRecapsuled(c, b, b.psp, out, csz, outsize)
  BY <1>1, AppendedIs
<1>4. csz \in Nat /\ csz <= Room
  BY <1>1, PipelineAssumption DEF AppendInputsOk, Fits
<1>5. BodyOf(n) = body /\ body \in Drivers
  BY DEF BodyOf, DriverOf, AppendedAtEnd, Drivers
<1>6. GoodBase(fv)
  <2>1. WalkInnerFv(fv).ok /\ ~HasVcn(WalkInnerFv(fv).inv)
    BY <1>1 DEF AppendInputsOk
  <2>2. WalkInnerFv(fv).inv = fv.files
    BY <1>2, <2>1, WalksFind
  <2> QED
    BY <1>2, <2>1, <2>2 DEF GoodBase
<1>7. PICK m, p : Grown(fv, out, m, p, body)
  <2>1. fv.blk + HDR <= 4 * PAGE /\ out = AppendAtEnd(fv, Blob(body))
    OBVIOUS
  <2> HIDE DEF fv, body, out
  <2> QED
    BY <1>2, <1>6, <2>1, AppendGrown
<1>8. c.fv = out
  BY <1>3 DEF IsRecapsuled
<1>9. Declared(outsize, out) /\ outsize # Unknown
  <2>1. out.len \in Nat
    BY <1>7 DEF Grown, LaidOut
  <2> HIDE DEF out
  <2> QED
    BY <2>1 DEF Unknown, Declared
<1>10. fv = b.fv /\ RoomLeft(out)
  BY <1>8 DEF RoomLeft
<1> HIDE DEF fv, body, out, outsize
<1>11. Gates(b, c, Named(c.fv.files, "VCN").off, body, Room)
         = IF outsize = Unknown THEN {"G10"} ELSE {}
  <2>1. GoodBase(b.fv) /\ Grown(b.fv, out, m, p, body)
    BY <1>6, <1>7, <1>10
  <2> QED
    BY <1>2, <1>3, <1>4, <1>5, <1>9, <1>10, <2>1, ImagePasses
<1> QED
  BY <1>5, <1>9, <1>11

-----------------------------------------------------------------------------
(* The inductive invariant.                                                *)
Shapes ==
  /\ \E s \in Setups : dump = s.dump /\ rungs = s.rungs
  /\ disk = [n \in Names |-> [is |-> disk[n].is, img |-> disk[n].img]]
  /\ \A n \in Names : disk[n].is \in {"absent", "partial", "whole"}
  /\ manifest = [n \in Names |-> manifest[n]]
  /\ job = [name |-> job.name, img |-> job.img, step |-> job.step]
  /\ job.step \in {"idle", "raised", "unverified"} \union WritingSteps
  /\ job.step \in WritingSteps => job.name \in Names
  /\ crashes \in 0..MaxCrashes

(* A rung's builder starts where no file is, and writes file and manifest  *)
(* in this order.                                                          *)
RungInOrder ==
  job.name # "O3" =>
    /\ job.step = "open" => disk[job.name].is = "absent"
    /\ job.step = "write" => disk[job.name].is = "partial"
    /\ job.step = "manifest" => disk[job.name] = [is |-> "whole", img |-> job.img]

(* Whatever is on the disk, in a manifest, being written or reported was   *)
(* made by the builder of that name.                                       *)
Origins ==
  /\ \A n \in Names : IF disk[n].is = "whole" THEN Made(dump, n, disk[n].img)
                      ELSE disk[n].img = NoImage
  /\ \A n \in Names : manifest[n] = NoImage \/ Made(dump, n, manifest[n])
  /\ IF job.step \in WritingSteps THEN Made(dump, job.name, job.img) ELSE job.img = NoImage

(* O3 overwrites what is there, but what it leaves never had a GO.         *)
Reported ==
  Go => /\ report.name \in Names \ {"O3"} /\ Made(dump, report.name, report.img)
        /\ \E off, winHi : Gates(dump, report.img, off, report.efi, winHi) = {}

LInv == Shapes /\ RungInOrder /\ Origins /\ Reported /\ GoStays /\ ManifestOfWhole

LEMMA InitLInv == PInit => LInv
<1> SUFFICES ASSUME PInit PROVE LInv
  OBVIOUS
<1>1. PICK s \in Setups :
        /\ dump = s.dump /\ rungs = s.rungs
        /\ disk = [n \in Names |-> IF n \in s.have THEN [is |-> "whole", img |-> Release(n)]
                                   ELSE Absent]
  BY DEF PInit
<1>2. /\ job = Idle /\ report = NoReport /\ manifest = [n \in Names |-> NoImage]
      /\ job.step = "idle" /\ job.img = NoImage /\ report.verdict = "none" /\ crashes = 0
  BY DEF PInit, Idle, NoReport
<1>3. \A n \in Names :
        /\ disk[n] = [is |-> disk[n].is, img |-> disk[n].img]
        /\ disk[n].is \in {"absent", "partial", "whole"}
        /\ IF disk[n].is = "whole" THEN n \in s.have /\ disk[n].img = Release(n)
           ELSE disk[n].img = NoImage
  BY <1>1 DEF Absent
<1>4. Shapes
  <2>1. disk = [n \in Names |-> [is |-> disk[n].is, img |-> disk[n].img]]
    BY <1>1, <1>3
  <2>2. MaxCrashes \in Nat
    BY PipelineAssumption
  <2>3. job = [name |-> job.name, img |-> job.img, step |-> job.step]
    BY <1>2 DEF Idle
  <2>4. manifest = [n \in Names |-> manifest[n]] /\ crashes \in 0..MaxCrashes
    BY <1>2, <2>2
  <2> QED
    BY <1>1, <1>2, <1>3, <2>1, <2>3, <2>4 DEF Shapes, WritingSteps
<1>5. Origins
  <2>1. s.have \subseteq Attachments
    BY PipelineAssumption
  <2> QED
    BY <1>2, <1>3, <2>1 DEF Origins, Made, WritingSteps
<1>6. RungInOrder /\ Reported /\ GoStays /\ ManifestOfWhole
  BY <1>2 DEF RungInOrder, Reported, GoStays, ManifestOfWhole, Go, WritingSteps
<1> QED
  BY <1>4, <1>5, <1>6 DEF LInv

(* A builder is started: a rung's only where the place is free.            *)
LEMMA BuildLInv ==
  ASSUME LInv, NEW n \in Names, NEW inputsOk, NEW img, NEW verified,
         Build(n, inputsOk, img, verified),
         inputsOk => Made(dump, n, img), n # "O3" => Free(n)
  PROVE  LInv'
<1>i. Shapes /\ RungInOrder /\ Origins /\ Reported /\ GoStays /\ ManifestOfWhole
  BY DEF LInv
<1>1. /\ dump' = dump /\ rungs' = rungs /\ disk' = disk /\ manifest' = manifest
      /\ report' = report /\ crashes' = crashes
  BY DEF Build
<1>2. /\ job' = [name |-> job'.name, img |-> job'.img, step |-> job'.step] /\ job'.name = n
      /\ \/ job'.step \in {"raised", "unverified"} /\ job'.img = NoImage
         \/ job'.step = "open" /\ inputsOk /\ job'.img = img
  <2>1. CASE ~inputsOk
    BY <2>1 DEF Build, Idle
  <2>2. CASE inputsOk /\ ~verified
    BY <2>2 DEF Build, Idle
  <2>3. CASE inputsOk /\ verified
    BY <2>3 DEF Build
  <2> QED
    BY <2>1, <2>2, <2>3
<1>3. Shapes'
  BY <1>i, <1>1, <1>2 DEF Shapes, WritingSteps
<1>4. RungInOrder'
  BY <1>1, <1>2 DEF RungInOrder, Free
<1>5. Origins'
  BY <1>i, <1>1, <1>2 DEF Origins, WritingSteps
<1>6. Reported' /\ GoStays' /\ ManifestOfWhole'
  BY <1>i, <1>1 DEF Reported, GoStays, ManifestOfWhole, Go
<1> QED
  BY <1>3, <1>4, <1>5, <1>6 DEF LInv

LEMMA NextLInv == LInv /\ [PNext]_pvars => LInv'
<1> SUFFICES ASSUME LInv, [PNext]_pvars PROVE LInv'
  OBVIOUS
<1>i. Shapes /\ RungInOrder /\ Origins /\ Reported /\ GoStays /\ ManifestOfWhole
  BY DEF LInv
<1>n. /\ {"FIXED", "STUB", "ACTIVE", "NOOP", "SAFE", "READYBOOT", "O3"} \subseteq Names
      /\ Attachments = {"BROKEN", "FIXED", "STUB"}
  BY DEF Names, Attachments, AppendedAtEnd
<1>1. CASE BuildFixed
  <2> DEFINE new == WithExplicitSize(Release("BROKEN"))
  <2>1. Made(dump, "FIXED", new)
    BY <1>n DEF Made, Release
  <2> HIDE DEF new
  <2>2. PICK inputsOk, verified : Free("FIXED") /\ Build("FIXED", inputsOk, new, verified)
    BY <1>1 DEF BuildFixed, new
  <2> QED
    BY <1>n, <2>1, <2>2, BuildLInv
<1>2. CASE BuildStub
  BY <1>2, <1>n, BuildLInv DEF BuildStub
<1>3. CASE BuildActiveOrNoop \/ BuildSafeReads \/ BuildReadyBoot
  <2>1. PICK n \in AppendedAtEnd : BuildAppended(n)
    BY <1>3 DEF BuildActiveOrNoop, BuildSafeReads, BuildReadyBoot, AppendedAtEnd
  <2>2. PICK csz \in CapsuleSizes :
          LET inputsOk == AppendInputsOk(dump, csz)
              img == IF inputsOk THEN Appended(dump, Blob(DriverOf(n)), csz) ELSE NoImage
          IN  Free(n) /\ Build(n, inputsOk, img, inputsOk /\ AppendVerified(dump, img))
    BY <2>1 DEF BuildAppended
  <2> DEFINE inputsOk == AppendInputsOk(dump, csz)
             img == IF inputsOk THEN Appended(dump, Blob(DriverOf(n)), csz) ELSE NoImage
  <2>3. inputsOk => Made(dump, n, img)
    BY DEF Made
  <2>4. n \in Names
    BY DEF Names
  <2>5. Free(n) /\ Build(n, inputsOk, img, inputsOk /\ AppendVerified(dump, img))
    BY <2>2
  <2> HIDE DEF inputsOk, img
  <2> QED
    BY <2>3, <2>4, <2>5, BuildLInv
<1>4. CASE BuildO3
  <2>1. PICK csz \in CapsuleSizes, blob \in Blobs :
          LET inputsOk == O3InputsOk(dump, blob, csz)
              img == IF inputsOk THEN O3Built(dump, blob, csz) ELSE NoImage
          IN  Build("O3", inputsOk, img, inputsOk /\ O3Verified(dump, img))
    BY <1>4 DEF BuildO3
  <2> DEFINE inputsOk == O3InputsOk(dump, blob, csz)
             img == IF inputsOk THEN O3Built(dump, blob, csz) ELSE NoImage
  <2>2. inputsOk => Made(dump, "O3", img)
    BY DEF Made
  <2>3. Build("O3", inputsOk, img, inputsOk /\ O3Verified(dump, img))
    BY <2>1
  <2> HIDE DEF inputsOk, img
  <2> QED
    BY <1>n, <2>2, <2>3, BuildLInv
<1>5. CASE OpenImage
  <2>1. /\ job.step = "open" /\ job' = [job EXCEPT !.step = "write"]
        /\ disk' = [disk EXCEPT ![job.name] = [is |-> "partial", img |-> NoImage]]
        /\ dump' = dump /\ rungs' = rungs /\ manifest' = manifest /\ report' = report
        /\ crashes' = crashes
    BY <1>5 DEF OpenImage, Writing
  <2>2. job.name \in Names /\ job'.name = job.name /\ job'.img = job.img /\ job'.step = "write"
    BY <1>i, <2>1 DEF Shapes, WritingSteps
  <2>3. \A n \in Names : disk'[n] = IF n = job.name THEN [is |-> "partial", img |-> NoImage] ELSE disk[n]
    BY <1>i, <2>1, <2>2 DEF Shapes
  <2>4. Shapes'
    BY <1>i, <2>1, <2>2, <2>3 DEF Shapes, WritingSteps
  <2>5. RungInOrder'
    BY <2>2, <2>3 DEF RungInOrder
  <2>6. Origins'
    BY <1>i, <2>1, <2>2, <2>3 DEF Origins, WritingSteps
  <2>7. job.name # "O3" => disk[job.name].is = "absent"
    BY <1>i, <2>1 DEF RungInOrder
  <2>8. ManifestOfWhole'
    BY <1>i, <2>1, <2>3, <2>7 DEF ManifestOfWhole
  <2>9. Reported' /\ GoStays'
    BY <1>i, <2>1, <2>3, <2>7 DEF GoStays, Reported, Go
  <2> QED
    BY <2>4, <2>5, <2>6, <2>8, <2>9 DEF LInv
<1>6. CASE FinishImage
  <2>1. /\ job.step = "write" /\ job' = [job EXCEPT !.step = "manifest"]
        /\ disk' = [disk EXCEPT ![job.name] = [is |-> "whole", img |-> job.img]]
        /\ dump' = dump /\ rungs' = rungs /\ manifest' = manifest /\ report' = report
        /\ crashes' = crashes
    BY <1>6 DEF FinishImage, Writing
  <2>2. job.name \in Names /\ job'.name = job.name /\ job'.img = job.img /\ job'.step = "manifest"
    BY <1>i, <2>1 DEF Shapes, WritingSteps
  <2>3. \A n \in Names : disk'[n] = IF n = job.name THEN [is |-> "whole", img |-> job.img] ELSE disk[n]
    BY <1>i, <2>1, <2>2 DEF Shapes
  <2>4. Shapes'
    BY <1>i, <2>1, <2>2, <2>3 DEF Shapes, WritingSteps
  <2>5. RungInOrder'
    BY <2>2, <2>3 DEF RungInOrder
  <2>6. Origins'
    BY <1>i, <2>1, <2>2, <2>3 DEF Origins, WritingSteps
  <2>7. job.name # "O3" => disk[job.name].is = "partial"
    BY <1>i, <2>1 DEF RungInOrder
  <2>8. ManifestOfWhole'
    BY <1>i, <2>1, <2>3, <2>7 DEF ManifestOfWhole
  <2>9. Reported' /\ GoStays'
    BY <1>i, <2>1, <2>3, <2>7 DEF GoStays, Reported, Go
  <2> QED
    BY <2>4, <2>5, <2>6, <2>8, <2>9 DEF LInv
<1>7. CASE WriteManifest
  <2>1. /\ job.step = "manifest" /\ job' = Idle /\ manifest' = [manifest EXCEPT ![job.name] = job.img]
        /\ dump' = dump /\ rungs' = rungs /\ disk' = disk /\ report' = report /\ crashes' = crashes
    BY <1>7 DEF WriteManifest
  <2>2. job.name \in Names /\ Made(dump, job.name, job.img)
    BY <1>i, <2>1 DEF Shapes, Origins, WritingSteps
  <2>3. \A n \in Names : manifest'[n] = IF n = job.name THEN job.img ELSE manifest[n]
    BY <1>i, <2>1, <2>2 DEF Shapes
  <2>4. Shapes'
    BY <1>i, <2>1, <2>2 DEF Shapes, WritingSteps, Idle
  <2>5. RungInOrder' /\ Reported' /\ GoStays'
    BY <1>i, <2>1 DEF RungInOrder, Reported, GoStays, Go, Idle
  <2>6. Origins'
    BY <1>i, <2>1, <2>2, <2>3 DEF Origins, Idle, WritingSteps
  <2>7. ManifestOfWhole'
    BY <1>i, <2>1, <2>3 DEF ManifestOfWhole, RungInOrder
  <2> QED
    BY <2>4, <2>5, <2>6, <2>7 DEF LInv
<1>8. CASE Crash
  <2>1. /\ job' = Idle /\ crashes < MaxCrashes /\ crashes' = crashes + 1
        /\ dump' = dump /\ rungs' = rungs /\ disk' = disk /\ manifest' = manifest /\ report' = report
    BY <1>8 DEF Crash
  <2>2. Shapes'
    BY <1>i, <2>1, PipelineAssumption DEF Shapes, Idle, WritingSteps
  <2>3. Origins' /\ RungInOrder' /\ Reported' /\ GoStays' /\ ManifestOfWhole'
    BY <1>i, <2>1 DEF Origins, RungInOrder, Reported, GoStays, ManifestOfWhole, Go, Idle, WritingSteps
  <2> QED
    BY <2>2, <2>3 DEF LInv
<1>9. CASE Preflight
  <2>1. /\ dump' = dump /\ rungs' = rungs /\ disk' = disk /\ manifest' = manifest /\ job' = job
        /\ crashes' = crashes
    BY <1>9 DEF Preflight
  <2>2. PICK n \in Names : \E efi, winHi, off :
          report' = IF disk[n].is = "whole" /\ Gates(dump, disk[n].img, off, efi, winHi) = {}
                    THEN [name |-> n, img |-> disk[n].img, efi |-> efi, verdict |-> "GO"]
                    ELSE [NoReport EXCEPT !.verdict = "NO-GO"]
    BY <1>9 DEF Preflight
  <2>3. ASSUME Go'
        PROVE  /\ report'.name = n /\ n # "O3" /\ disk[n] = [is |-> "whole", img |-> report'.img]
               /\ Made(dump, n, report'.img)
               /\ \E off, winHi : Gates(dump, report'.img, off, report'.efi, winHi) = {}
    <3>1. PICK efi, winHi, off :
            /\ disk[n].is = "whole" /\ Gates(dump, disk[n].img, off, efi, winHi) = {}
            /\ report' = [name |-> n, img |-> disk[n].img, efi |-> efi, verdict |-> "GO"]
      BY <2>2, <2>3 DEF Go, NoReport
    <3>2. ~Undeclared(disk[n].img)
      BY <3>1, GoIsDeclared
    <3>3. disk[n] = [is |-> disk[n].is, img |-> disk[n].img]
      BY <1>i DEF Shapes
    <3>4. Made(dump, n, disk[n].img)
      BY <1>i, <3>1 DEF Origins
    <3>5. n # "O3"
      BY <1>i, <3>2, <3>4, O3IsUndeclared DEF Shapes
    <3> QED
      BY <3>1, <3>3, <3>4, <3>5
  <2>4. GoStays'
    BY <2>1, <2>3 DEF GoStays
  <2>5. Reported'
    BY <2>1, <2>2, <2>3 DEF Reported
  <2>6. Shapes' /\ RungInOrder' /\ Origins' /\ ManifestOfWhole'
    BY <1>i, <2>1 DEF Shapes, RungInOrder, Origins, ManifestOfWhole
  <2> QED
    BY <2>4, <2>5, <2>6 DEF LInv
<1>10. CASE UNCHANGED pvars
  BY <1>10, <1>i DEF pvars, LInv, Shapes, RungInOrder, Origins, Reported, GoStays, ManifestOfWhole, Go
<1> QED
  BY <1>1, <1>2, <1>3, <1>4, <1>5, <1>6, <1>7, <1>8, <1>9, <1>10 DEF PNext

(* Types, and no image anywhere has two files that overlap.                *)
THEOREM PipelineTypes == PSpec => []PTypeOK
<1>1. ASSUME LInv PROVE PTypeOK
  <2>1. PICK s \in Setups : dump = s.dump /\ rungs = s.rungs
    BY <1>1 DEF LInv, Shapes
  <2>2. \A n, img : Made(dump, n, img) => ImageOk(img)
    BY <2>1, BuiltIsOk
  <2>3. ImageOk(NoImage)
    BY DEF ImageOk
  <2>4. \A n \in Names : ImageOk(disk[n].img) /\ ImageOk(manifest[n])
    BY <1>1, <2>2, <2>3 DEF LInv, Origins
  <2>5. ImageOk(job.img)
    BY <1>1, <2>2, <2>3 DEF LInv, Origins
  <2>6. disk \in [Names -> [is : {"absent", "partial", "whole"}, img : {disk[n].img : n \in Names}]]
    <3>1. /\ disk = [n \in Names |-> [is |-> disk[n].is, img |-> disk[n].img]]
          /\ \A n \in Names : disk[n].is \in {"absent", "partial", "whole"}
      BY <1>1 DEF LInv, Shapes
    <3>2. \A n \in Names : [is |-> disk[n].is, img |-> disk[n].img]
                             \in [is : {"absent", "partial", "whole"}, img : {disk[m].img : m \in Names}]
      BY <3>1
    <3> QED
      BY <3>1, <3>2
  <2>7. [dump |-> dump, rungs |-> rungs] \in {[dump |-> t.dump, rungs |-> t.rungs] : t \in Setups}
    BY <2>1
  <2> QED
    BY <1>1, <2>4, <2>5, <2>6, <2>7 DEF PTypeOK, LInv, Shapes, WritingSteps
<1> QED
  BY <1>1, InitLInv, NextLInv, PTL DEF PSpec

(* Both walks find on every image what they are meant to, or raise.        *)
THEOREM WalksFindAll == PSpec => []WalksAgree
<1>1. ASSUME LInv PROVE WalksAgree
  <2>1. PICK s \in Setups : dump = s.dump
    BY <1>1 DEF LInv, Shapes
  <2>2. ASSUME NEW fv \in {img.fv : img \in WholeImages \union {dump}}
        PROVE  LaidOut(fv) /\ "files" \in DOMAIN fv
    <3>1. PICK img \in WholeImages \union {dump} : fv = img.fv
      BY <2>2
    <3>2. CASE img = dump
      <4>1. LaidOut(dump.fv) /\ IsVolume(dump.fv)
        BY <2>1, ADump
      <4> HIDE DEF LaidOut
      <4> QED
        BY <3>1, <3>2, <4>1 DEF IsVolume
    <3>3. CASE img \in WholeImages
      <4>1. PICK n \in Names : disk[n].is = "whole" /\ img = disk[n].img
        BY <3>3 DEF WholeImages
      <4>2. Made(dump, n, img)
        BY <1>1, <4>1 DEF LInv, Origins
      <4> QED
        BY <2>1, <3>1, <4>2, BuiltIsOk
    <3> QED
      BY <3>1, <3>2, <3>3
  <2>3. ASSUME NEW fv, LaidOut(fv), "files" \in DOMAIN fv
        PROVE  /\ IF Known(fv, BuilderTypes) THEN WalkInnerFv(fv).inv = fv.files ELSE ~WalkInnerFv(fv).ok
               /\ IF \A f \in Reached(fv) : Known([fv EXCEPT !.files = {f}], PreflightTypes)
                  THEN WalkFfs(fv).inv = Reached(fv) ELSE ~WalkFfs(fv).ok
    <3>1. Known(fv, BuilderTypes) <=> \A f \in fv.files : f.type \in BuilderTypes /\ f.sum = "good"
      BY DEF Known
    <3>2. \A f : Known([fv EXCEPT !.files = {f}], PreflightTypes)
                   <=> f.type \in PreflightTypes /\ f.sum = "good"
      BY <2>3 DEF Known
    <3> QED
      BY <2>3, <3>1, <3>2, WalksFind
  <2> QED
    BY <2>2, <2>3 DEF WalksAgree
<1> QED
  BY <1>1, InitLInv, NextLInv, PTL DEF PSpec

(* Lengths and checksums of every whole image agree if those of the dump   *)
(* that it is made from do.                                                *)
THEOREM ImagesLoad == PSpec => []LoadsIfDumpDoes
<1>1. ASSUME LInv PROVE LoadsIfDumpDoes
  <2>1. PICK s \in Setups : dump = s.dump
    BY <1>1 DEF LInv, Shapes
  <2>2. ASSUME NEW n \in Names \ {"BROKEN"}, disk[n].is = "whole",
               Loads(Source(dump, n)), ~Source(dump, n).cap.attr
        PROVE  Loads(IF n = "O3" THEN WithExplicitSize(disk[n].img) ELSE disk[n].img)
    <3>1. Made(dump, n, disk[n].img)
      BY <1>1, <2>2 DEF LInv, Origins
    <3>2. PICK csz, psp, fv : IsBuilt(dump, n, disk[n].img, csz, psp, fv)
      BY <2>1, <3>1, MadeIs
    <3> QED
      BY <2>2, <3>2, BuiltLoads
  <2> QED
    BY <2>2 DEF LoadsIfDumpDoes, Source
<1> QED
  BY <1>1, InitLInv, NextLInv, PTL DEF PSpec

(* A GO means that the capsule can be decoded, that the driver asked for   *)
(* is dispatched and no driver of the dump is lost, and that nothing else  *)
(* of the board changes.                                                   *)
THEOREM GoIsRight == PSpec => []GoMeansDispatched
<1>1. ASSUME LInv, Go
      PROVE  LET c == report.img
                 run == Dispatched(c.fv)
             IN  /\ c.lzma.outsize = StreamLen(c) /\ c.board = dump.board /\ c.psp = dump.psp
                 /\ \E f \in run : f.guid = "VCN" /\ f.body = report.efi
                 /\ \A f \in Dispatched(dump.fv) : \E g \in run : g.guid = f.guid /\ g.body = f.body
  <2> DEFINE c == report.img
             inv == WalkFfs(c.fv).inv
             nf == Named(inv, "VCN")
  <2>1. PICK s \in Setups : dump = s.dump
    BY <1>1 DEF LInv, Shapes
  <2>2. report.name # "O3" /\ Made(dump, report.name, c)
    BY <1>1 DEF LInv, Reported
  <2>3. PICK off, winHi : Gates(dump, c, off, report.efi, winHi) = {}
    BY <1>1 DEF LInv, Reported
  <2>4. /\ WalkFfs(c.fv).ok /\ G8(dump, c, winHi) /\ G10(dump, c)
        /\ HasVcn(inv) /\ nf.state = "valid" /\ nf.body = report.efi
    BY <2>3, NoGateFails
  <2>5. c.lzma.outsize = StreamLen(c) /\ c.board = dump.board /\ c.psp = dump.psp
    BY <2>4 DEF G8, G1, G10
  <2>6. nf \in Dispatched(c.fv) /\ nf.guid = "VCN"
    <3>1. LaidOut(c.fv)
      BY <2>1, <2>2, BuiltIsOk
    <3>2. inv = Reached(c.fv)
      BY <2>4, <3>1, WalksFind
    <3>3. inv \in SUBSET c.fv.files
      BY <3>2 DEF Reached
    <3>4. \E f \in inv : f.guid = "VCN"
      BY <2>4 DEF HasVcn
    <3>5. nf \in inv /\ nf.guid = "VCN"
      BY <3>1, <3>3, <3>4, NamedIs
    <3> QED
      BY <2>4, <3>2, <3>5 DEF Dispatched
  <2>7. \A f \in Dispatched(dump.fv) : \E g \in Dispatched(c.fv) : g.guid = f.guid /\ g.body = f.body
    BY <2>1, <2>2, <2>5, BuiltDispatches
  <2> QED
    BY <2>4, <2>5, <2>6, <2>7
<1>2. LInv => GoMeansDispatched
  BY <1>1 DEF GoMeansDispatched
<1> QED
  BY <1>2, InitLInv, NextLInv, PTL DEF PSpec

(* Where a rung has a manifest its image is whole and the one described,   *)
(* however often builders were interrupted.                                *)
THEOREM ManifestDescribes == PSpec => []ManifestOfWhole
<1>1. LInv => ManifestOfWhole
  BY DEF LInv
<1> QED
  BY <1>1, InitLInv, NextLInv, PTL DEF PSpec

(* No build, finished or interrupted, changes an image that the preflight  *)
(* let through: the rungs refuse to overwrite, and O3 has never a GO.      *)
THEOREM GoIsKept == PSpec => []GoStays
<1>1. LInv => GoStays
  BY DEF LInv
<1> QED
  BY <1>1, InitLInv, NextLInv, PTL DEF PSpec

-----------------------------------------------------------------------------
(* What a refusal by the verification of that image excuses.               *)
Excused(n) ==
  IF n = "O3"
  THEN \/ Cardinality(PositionsOf(dump.psp)) > Len(LOCK_TYPES)
       \/ \E i \in PositionsOf(dump.psp) : i > PspWindow
  ELSE \/ Cardinality(dump.fv.files) # BaseFiles
       \/ Cardinality(Guids(dump.fv.files)) < Cardinality(dump.fv.files)

(* Its companion: where an appended image is, whole or being written, its  *)
(* builder has verified it, so that the dump is a stock one.               *)
Checked ==
  \A n \in AppendedAtEnd :
    (disk[n].is = "whole" \/ (job.step \in WritingSteps /\ job.name = n))
    => StockFiles(dump.fv.files)

VInv == VerificationHolds /\ Checked

LEMMA InitVInv == PInit => VInv
<1> SUFFICES ASSUME PInit PROVE VInv
  OBVIOUS
<1>1. PICK s \in Setups :
        disk = [n \in Names |-> IF n \in s.have THEN [is |-> "whole", img |-> Release(n)] ELSE Absent]
  BY DEF PInit
<1>2. job.step = "idle"
  BY DEF PInit, Idle
<1>3. \A n \in AppendedAtEnd : disk[n].is = "absent"
  <2>1. s.have \subseteq Attachments
    BY PipelineAssumption
  <2>2. \A n \in AppendedAtEnd : n \in Names /\ n \notin Attachments
    BY DEF Names, Attachments, AppendedAtEnd
  <2>3. \A n \in AppendedAtEnd : disk[n] = Absent
    BY <1>1, <2>1, <2>2
  <2> QED
    BY <2>3 DEF Absent
<1> QED
  BY <1>2, <1>3 DEF VInv, VerificationHolds, Checked, WritingSteps

LEMMA BuildVInv ==
  ASSUME VInv, NEW n, NEW inputsOk, NEW img, NEW verified, Build(n, inputsOk, img, verified),
         inputsOk /\ ~verified => Excused(n),
         n \in AppendedAtEnd /\ inputsOk /\ verified => StockFiles(dump.fv.files)
  PROVE  VInv'
<1>1. dump' = dump /\ disk' = disk
  BY DEF Build
<1>2. /\ job'.name = n
      /\ \/ job'.step = "raised"
         \/ job'.step = "unverified" /\ inputsOk /\ ~verified
         \/ job'.step = "open" /\ inputsOk /\ verified
  <2>1. CASE ~inputsOk
    BY <2>1 DEF Build, Idle
  <2>2. CASE inputsOk /\ ~verified
    BY <2>2 DEF Build, Idle
  <2>3. CASE inputsOk /\ verified
    BY <2>3 DEF Build
  <2> QED
    BY <2>1, <2>2, <2>3
<1>3. VerificationHolds'
  BY <1>1, <1>2 DEF VerificationHolds, Excused
<1>4. Checked'
  <2>1. ASSUME NEW m \in AppendedAtEnd,
               disk'[m].is = "whole" \/ (job'.step \in WritingSteps /\ job'.name = m)
        PROVE  StockFiles(dump.fv.files)
    <3>1. CASE disk'[m].is = "whole"
      BY <1>1, <2>1, <3>1 DEF VInv, Checked
    <3>2. CASE job'.step \in WritingSteps /\ job'.name = m
      BY <1>2, <2>1, <3>2 DEF WritingSteps
    <3> QED
      BY <2>1, <3>1, <3>2
  <2>2. \A m \in AppendedAtEnd :
          disk'[m].is = "whole" \/ (job'.step \in WritingSteps /\ job'.name = m)
          => StockFiles(dump'.fv.files)
    BY <1>1, <2>1
  <2> QED
    BY <2>2 DEF Checked
<1> QED
  BY <1>3, <1>4 DEF VInv

(* The files of a dump that is not a stock one.                            *)
LEMMA NotStock ==
  ASSUME NEW fv, LaidOut(fv), ~StockFiles(fv.files)
  PROVE  Cardinality(fv.files) # BaseFiles \/ Cardinality(Guids(fv.files)) < Cardinality(fv.files)
<1> SUFFICES ASSUME Cardinality(fv.files) = BaseFiles,
                    ~(Cardinality(Guids(fv.files)) < Cardinality(fv.files))
             PROVE  FALSE
  OBVIOUS
<1>1. IsFiniteSet(fv.files)
  BY FilesFinite
<1>2. \A f, g \in fv.files : f.guid = g.guid => f = g
  BY <1>1, DistinctGuids
<1> QED
  BY <1>2 DEF StockFiles

LEMMA NextVInv == LInv /\ VInv /\ [PNext]_pvars => VInv'
<1> SUFFICES ASSUME LInv, VInv, [PNext]_pvars PROVE VInv'
  OBVIOUS
<1>s. PICK s \in Setups : dump = s.dump
  BY DEF LInv, Shapes
<1>b. dump \in {t.dump : t \in Setups}
  BY <1>s
<1>n. /\ "FIXED" \notin AppendedAtEnd /\ "STUB" \notin AppendedAtEnd /\ "O3" \notin AppendedAtEnd
      /\ AppendedAtEnd \subseteq Names
  BY DEF AppendedAtEnd, Names
<1>1. CASE BuildFixed
  <2> DEFINE new == WithExplicitSize(Release("BROKEN"))
             verified == decompress_inner(new) /\ HasVcn(WalkInnerFv(new.fv).inv)
  <2>1. verified
    BY FixedVerifies
  <2> HIDE DEF new
  <2>2. PICK inputsOk : Build("FIXED", inputsOk, new, verified)
    BY <1>1 DEF BuildFixed, new
  <2> HIDE DEF verified
  <2> QED
    BY <1>n, <2>1, <2>2, BuildVInv
<1>2. CASE BuildStub
  BY <1>2, <1>n, BuildVInv DEF BuildStub
<1>3. CASE BuildActiveOrNoop \/ BuildSafeReads \/ BuildReadyBoot
  <2>1. PICK n \in AppendedAtEnd : BuildAppended(n)
    BY <1>3 DEF BuildActiveOrNoop, BuildSafeReads, BuildReadyBoot, AppendedAtEnd
  <2>2. PICK csz \in CapsuleSizes :
          LET inputsOk == AppendInputsOk(dump, csz)
              img == IF inputsOk THEN Appended(dump, Blob(DriverOf(n)), csz) ELSE NoImage
          IN  Free(n) /\ Build(n, inputsOk, img, inputsOk /\ AppendVerified(dump, img))
    BY <2>1 DEF BuildAppended
  <2> DEFINE inputsOk == AppendInputsOk(dump, csz)
             img == IF inputsOk THEN Appended(dump, Blob(DriverOf(n)), csz) ELSE NoImage
             verified == inputsOk /\ AppendVerified(dump, img)
  <2>3. Build(n, inputsOk, img, verified)
    BY <2>2
  <2>4. inputsOk => (AppendVerified(dump, img) <=> StockFiles(dump.fv.files))
    <3>1. ASSUME AppendInputsOk(dump, csz)
          PROVE  AppendVerified(dump, Appended(dump, Blob(DriverOf(n)), csz))
                   <=> StockFiles(dump.fv.files)
      BY <1>b, <3>1, AppendVerifies
    <3> QED
      BY <3>1
  <2>5. inputsOk /\ ~verified => Excused(n)
    <3>1. LaidOut(dump.fv)
      BY <1>b, ADump
    <3>2. ~StockFiles(dump.fv.files) =>
            \/ Cardinality(dump.fv.files) # BaseFiles
            \/ Cardinality(Guids(dump.fv.files)) < Cardinality(dump.fv.files)
      BY <3>1, NotStock
    <3>3. n # "O3"
      BY <1>n
    <3> HIDE DEF img
    <3> QED
      BY <2>4, <3>2, <3>3 DEF Excused
  <2>6. inputsOk /\ verified => StockFiles(dump.fv.files)
    BY <2>4
  <2> HIDE DEF inputsOk, img, verified
  <2> QED
    BY <2>3, <2>5, <2>6, BuildVInv
<1>4. CASE BuildO3
  <2>1. PICK csz \in CapsuleSizes, blob \in Blobs :
          LET inputsOk == O3InputsOk(dump, blob, csz)
              img == IF inputsOk THEN O3Built(dump, blob, csz) ELSE NoImage
          IN  Build("O3", inputsOk, img, inputsOk /\ O3Verified(dump, img))
    BY <1>4 DEF BuildO3
  <2> DEFINE inputsOk == O3InputsOk(dump, blob, csz)
             img == IF inputsOk THEN O3Built(dump, blob, csz) ELSE NoImage
             verified == inputsOk /\ O3Verified(dump, img)
  <2>2. Build("O3", inputsOk, img, verified)
    BY <2>1
  <2>3. inputsOk /\ ~verified => Excused("O3")
    <3>1. ASSUME O3InputsOk(dump, blob, csz), ~Excused("O3")
          PROVE  O3Verified(dump, O3Built(dump, blob, csz))
      <4>1. /\ ~(Cardinality(PositionsOf(dump.psp)) > Len(LOCK_TYPES))
            /\ \A i \in PositionsOf(dump.psp) : ~(i > PspWindow)
        BY <3>1 DEF Excused
      <4> QED
        BY <1>b, <3>1, <4>1, O3Verifies
    <3> QED
      BY <3>1
  <2> HIDE DEF inputsOk, img, verified
  <2> QED
    BY <1>n, <2>2, <2>3, BuildVInv
<1>5. CASE OpenImage
  <2>1. /\ job.step = "open" /\ job' = [job EXCEPT !.step = "write"] /\ dump' = dump
        /\ disk' = [disk EXCEPT ![job.name] = [is |-> "partial", img |-> NoImage]]
    BY <1>5 DEF OpenImage, Writing
  <2>2. job'.name = job.name /\ job'.step = "write"
    BY <2>1 DEF LInv, Shapes
  <2>3. \A n \in AppendedAtEnd : disk'[n].is = "whole" => disk[n].is = "whole"
    BY <1>n, <2>1 DEF LInv, Shapes
  <2> QED
    BY <2>1, <2>2, <2>3 DEF VInv, VerificationHolds, Checked, WritingSteps
<1>6. CASE FinishImage
  <2>1. /\ job.step = "write" /\ job' = [job EXCEPT !.step = "manifest"] /\ dump' = dump
        /\ disk' = [disk EXCEPT ![job.name] = [is |-> "whole", img |-> job.img]]
    BY <1>6 DEF FinishImage, Writing
  <2>2. job'.name = job.name /\ job'.step = "manifest"
    BY <2>1 DEF LInv, Shapes
  <2>3. \A n \in AppendedAtEnd : disk'[n].is = "whole" => disk[n].is = "whole" \/ job.name = n
    BY <1>n, <2>1 DEF LInv, Shapes
  <2> QED
    BY <2>1, <2>2, <2>3 DEF VInv, VerificationHolds, Checked, WritingSteps
<1>7. CASE WriteManifest \/ Crash
  <2>1. job' = Idle /\ dump' = dump /\ disk' = disk
    BY <1>7 DEF WriteManifest, Crash
  <2>2. job'.step = "idle"
    BY <2>1 DEF Idle
  <2> QED
    BY <2>1, <2>2 DEF VInv, VerificationHolds, Checked, WritingSteps
<1>8. CASE Preflight \/ UNCHANGED pvars
  <2>1. job' = job /\ dump' = dump /\ disk' = disk
    BY <1>8 DEF Preflight, pvars
  <2> QED
    BY <2>1 DEF VInv, VerificationHolds, Checked
<1> QED
  BY <1>1, <1>2, <1>3, <1>4, <1>5, <1>6, <1>7, <1>8 DEF PNext

(* Every builder's verification of its own result fails only of a dump     *)
(* that is to blame.                                                       *)
THEOREM VerificationIsRight == PSpec => []VerificationHolds
<1>1. PInit => LInv /\ VInv
  BY InitLInv, InitVInv
<1>2. LInv /\ VInv /\ [PNext]_pvars => LInv' /\ VInv'
  BY NextLInv, NextVInv
<1>3. LInv /\ VInv => VerificationHolds
  BY DEF VInv
<1> QED
  BY <1>1, <1>2, <1>3, PTL DEF PSpec

(* The preflight lets every good image through: nothing that the builders  *)
(* make of a dump the firmware loads is stopped by a gate, and of BROKEN   *)
(* only the length that it does not declare.                               *)
THEOREM GoodImagesAreLetThrough == PSpec => []GoodImagesPass
<1>1. ASSUME LInv, VInv, NEW n \in Names \ {"O3"},
             disk[n].is = "whole", disk[n].img.board = dump.board,
             Reached(dump.fv) = dump.fv.files, Known(dump.fv, PreflightTypes), Loads(dump),
             dump.lzma.params = "ours", dump.fv.blk + HDR <= 4 * PAGE,
             Max({End(f) : f \in disk[n].img.fv.files}) + HDR <= disk[n].img.fv.len
      PROVE  Gates(dump, disk[n].img, Named(disk[n].img.fv.files, "VCN").off, BodyOf(n), Room)
               = IF n = "BROKEN" THEN {"G10"} ELSE {}
  <2> DEFINE c == disk[n].img
  <2>1. dump \in {s.dump : s \in Setups}
    BY <1>1 DEF LInv, Shapes
  <2>2. Made(dump, n, c)
    BY <1>1 DEF LInv, Origins
  <2>3. Max({End(f) : f \in c.fv.files}) + HDR <= c.fv.len /\ c.board = dump.board
    BY <1>1
  <2> HIDE DEF c
  <2>4. Gates(dump, c, Named(c.fv.files, "VCN").off, BodyOf(n), Room)
          = IF n = "BROKEN" THEN {"G10"} ELSE {}
    <3>1. CASE n \in Attachments
      <4>1. c = Release(n)
        BY <2>2, <3>1 DEF Made, Attachments, AppendedAtEnd
      <4>2. c.board = AuthorDump.board
        BY <3>1, <4>1, ReleaseIs DEF IsRecapsuled
      <4>3. dump = AuthorDump
        BY <2>1, <2>3, <4>2, DumpAssumption
      <4>4. /\ Loads(AuthorDump) /\ AuthorDump.lzma.params = "ours"
            /\ Reached(AuthorDump.fv) = AuthorDump.fv.files /\ Known(AuthorDump.fv, PreflightTypes)
            /\ AuthorDump.fv.blk + HDR <= 4 * PAGE
        BY <1>1, <4>3
      <4>5. Gates(AuthorDump, c, Named(c.fv.files, "VCN").off, BodyOf(n), Room)
              = IF n = "BROKEN" THEN {"G10"} ELSE {}
        BY <2>3, <3>1, <4>1, <4>4, AttachmentPasses
      <4> QED
        BY <4>3, <4>5
    <3>2. CASE n \in AppendedAtEnd
      <4>1. StockFiles(dump.fv.files)
        BY <1>1, <3>2 DEF VInv, Checked
      <4>2. Gates(dump, c, Named(c.fv.files, "VCN").off, BodyOf(n), Room) = {}
        BY <1>1, <2>1, <2>2, <2>3, <3>2, <4>1, AppendedPasses
      <4>3. n # "BROKEN"
        BY <3>2 DEF AppendedAtEnd
      <4> QED
        BY <4>2, <4>3
    <3> QED
      BY <1>1, <3>1, <3>2 DEF Names
  <2> QED
    BY <2>4 DEF c
<1>2. LInv /\ VInv => GoodImagesPass
  BY <1>1 DEF GoodImagesPass
<1>3. PInit => LInv /\ VInv
  BY InitLInv, InitVInv
<1>4. LInv /\ VInv /\ [PNext]_pvars => LInv' /\ VInv'
  BY NextLInv, NextVInv
<1> QED
  BY <1>2, <1>3, <1>4, PTL DEF PSpec
=============================================================================
