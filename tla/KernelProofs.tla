---------------------------- MODULE KernelProofs ----------------------------
(***************************************************************************)
(* The kernel's side: patch 0008, for any shader arrays and any number of  *)
(* hw_inits, and the installation of the probe kernel, for any set of      *)
(* copies of the boot menu and any number of interrupted runs.             *)
(***************************************************************************)
EXTENDS CuUnlock, ProbeKernel, FiniteSetTheorems, TLAPS

-----------------------------------------------------------------------------
(* Patch 0008.  The mutex and the step of the function go together; while  *)
(* it works on an array the index is on that array.                        *)
Stages == {"out", "select", "cc", "spi", "rlc", "restoreCc", "restoreSpi", "unlock"}
OnArray == {"cc", "spi", "rlc", "restoreCc", "restoreSpi"}

CuTypes ==
  /\ cc_mode \in 0..4 /\ inits \in Nat
  /\ mask \in [Array -> [cc : {"harvest", "0"}, spi : {"some", "all"}, rlc : {"some", "all"}]]
  /\ index \in Array \union {ALL}
  /\ mutex \in {"free", "init", "other"}
  /\ cu \in [at : Stages, k : 1..(Len(Arrays) + 1), cc_orig : {"harvest", "0"},
             spi_orig : {"some", "all"}]

Holding ==
  /\ mutex = "init" <=> cu.at # "out"
  /\ index = ALL \/ mutex = "other" \/ cu.at \in OnArray \union {"select"}
  /\ cu.at \in {"out", "unlock"} => cu.k = 1
  /\ cu.at # "out" => inits > 0
  /\ cu.at \in OnArray => /\ index = Arrays[cu.k] /\ cu.k <= Len(Arrays)
                          /\ cc_mode = 2 => cu.k = 1
  /\ cu.at \in OnArray \union {"select"} => cc_mode > 0
  /\ cu.at \in {"restoreCc", "restoreSpi"} => Probing

(* What the modes 0, 2 and 3 have done: nothing to the arrays that are not *)
(* meant, and everything to those before the one in hand.                  *)
OpenedSoFar ==
  ~Probing =>
    /\ inits = 0 => \A a \in Array : mask[a] = Harvested
    /\ \A a \in Array : Meant(a) = Harvested => mask[a] = Harvested
    /\ cu.at \in {"out", "unlock"} /\ inits > 0 => \A a \in Array : mask[a] = Meant(a)
    /\ cu.at \in OnArray \union {"select"} =>
         \A j \in 1..Len(Arrays) : j < cu.k => mask[Arrays[j]] = Meant(Arrays[j])
    /\ cu.at \in {"spi", "rlc"} => mask[Arrays[cu.k]].cc = "0"
    /\ cu.at = "rlc" => mask[Arrays[cu.k]].spi = "all"

(* What the probe modes owe: the two words of the one array in hand.       *)
Owed ==
  Probing =>
    /\ \A a \in Array :
         /\ mask[a].cc = "harvest" \/ (cu.at \in {"spi", "rlc", "restoreCc"} /\ a = index)
         /\ mask[a].spi = "some" \/ (cu.at \in {"rlc", "restoreCc", "restoreSpi"} /\ a = index)
    /\ cu.at \in {"spi", "rlc", "restoreCc"} => cu.cc_orig = "harvest"
    /\ cu.at \in {"rlc", "restoreCc", "restoreSpi"} => cu.spi_orig = "some"

CuInv == CuTypes /\ Holding /\ OpenedSoFar /\ Owed

LEMMA ArraysAre ==
  /\ Len(Arrays) \in Nat /\ Len(Arrays) > 0
  /\ \A j \in 1..Len(Arrays) : Arrays[j] \in Array /\ Arrays[j] # ALL
  /\ ALL \notin Array
  /\ \A a \in Array : \E j \in 1..Len(Arrays) : a = Arrays[j]
<1>1. Len(Arrays) \in Nat /\ Len(Arrays) > 0
  BY CuAssumption
<1>2. \A j \in 1..Len(Arrays) : Arrays[j] \in Nat \X Nat
  BY CuAssumption
<1>3. ALL \notin Nat \X Nat
  BY DEF ALL
<1> QED
  BY <1>1, <1>2, <1>3 DEF Array

LEMMA InitCuInv == CInit => CuInv
<1> SUFFICES ASSUME CInit PROVE CuInv
  OBVIOUS
<1>1. CuTypes
  BY ArraysAre DEF CInit, CuTypes, AtRest, Stages, Harvested
<1>2. cu.at = "out" /\ cu.k = 1
  BY DEF CInit, AtRest
<1>3. \A a \in Array : mask[a] = Harvested
  BY DEF CInit
<1> QED
  BY <1>1, <1>2, <1>3 DEF CInit, CuInv, Holding, OpenedSoFar, Owed, OnArray, Harvested

(* An access with the index on one array is to that array.                 *)
LEMMA WriteOne ==
  ASSUME CuTypes, index \in Array, NEW reg \in {"cc", "spi", "rlc"}, NEW value, Write(reg, value)
  PROVE  /\ mask' \in [Array -> {mask'[a] : a \in Array}]
         /\ \A a \in Array : a # index => mask'[a] = mask[a]
         /\ mask'[index] = [mask[index] EXCEPT ![reg] = value]
<1>1. Selected = {index}
  BY ArraysAre DEF Selected
<1> QED
  BY <1>1 DEF Write
(* The steps that write one register of the array in hand.                 *)
LEMMA WriteFields ==
  ASSUME CuTypes, Holding, cu.at \in OnArray, NEW reg \in {"cc", "spi", "rlc"},
         NEW value \in {"harvest", "0", "some", "all"},
         reg = "cc" <=> value \in {"harvest", "0"}, Write(reg, value)
  PROVE  /\ index \in Array /\ index = Arrays[cu.k] /\ cu.k \in 1..Len(Arrays)
         /\ mask' \in [Array -> [cc : {"harvest", "0"}, spi : {"some", "all"}, rlc : {"some", "all"}]]
         /\ \A a \in Array : a # index => mask'[a] = mask[a]
         /\ mask'[index].cc = IF reg = "cc" THEN value ELSE mask[index].cc
         /\ mask'[index].spi = IF reg = "spi" THEN value ELSE mask[index].spi
         /\ mask'[index].rlc = IF reg = "rlc" THEN value ELSE mask[index].rlc
<1>1. index \in Array /\ index = Arrays[cu.k] /\ cu.k \in 1..Len(Arrays)
  BY ArraysAre DEF Holding, CuTypes
<1>2. /\ \A a \in Array : a # index => mask'[a] = mask[a]
      /\ mask'[index] = [mask[index] EXCEPT ![reg] = value]
  BY <1>1, WriteOne
<1>3. mask[index] \in [cc : {"harvest", "0"}, spi : {"some", "all"}, rlc : {"some", "all"}]
  BY <1>1 DEF CuTypes
<1>4. CASE reg = "cc"
  <2>1. mask'[index] = [mask[index] EXCEPT !.cc = value] /\ value \in {"harvest", "0"}
    BY <1>2, <1>4
  <2>2. mask'[index] \in [cc : {"harvest", "0"}, spi : {"some", "all"}, rlc : {"some", "all"}]
    BY <1>3, <2>1
  <2>3. mask' \in [Array -> [cc : {"harvest", "0"}, spi : {"some", "all"}, rlc : {"some", "all"}]]
    BY <1>1, <1>2, <2>2, WriteOne DEF CuTypes
  <2> QED
    BY <1>1, <1>2, <1>3, <1>4, <2>1, <2>3
<1>5. CASE reg = "spi"
  <2>1. mask'[index] = [mask[index] EXCEPT !.spi = value] /\ value \in {"some", "all"}
    BY <1>2, <1>5
  <2>2. mask'[index] \in [cc : {"harvest", "0"}, spi : {"some", "all"}, rlc : {"some", "all"}]
    BY <1>3, <2>1
  <2>3. mask' \in [Array -> [cc : {"harvest", "0"}, spi : {"some", "all"}, rlc : {"some", "all"}]]
    BY <1>1, <1>2, <2>2, WriteOne DEF CuTypes
  <2> QED
    BY <1>1, <1>2, <1>3, <1>5, <2>1, <2>3
<1>6. CASE reg = "rlc"
  <2>1. mask'[index] = [mask[index] EXCEPT !.rlc = value] /\ value \in {"some", "all"}
    BY <1>2, <1>6
  <2>2. mask'[index] \in [cc : {"harvest", "0"}, spi : {"some", "all"}, rlc : {"some", "all"}]
    BY <1>3, <2>1
  <2>3. mask' \in [Array -> [cc : {"harvest", "0"}, spi : {"some", "all"}, rlc : {"some", "all"}]]
    BY <1>1, <1>2, <2>2, WriteOne DEF CuTypes
  <2> QED
    BY <1>1, <1>2, <1>3, <1>6, <2>1, <2>3
<1> QED
  BY <1>4, <1>5, <1>6

(* The array in hand is meant to be opened, unless it is only probed.      *)
LEMMA InHand ==
  ASSUME CuTypes, Holding, cu.at \in OnArray, ~Probing
  PROVE  Meant(index) = Opened
BY ArraysAre DEF CuTypes, Holding, OnArray, Probing, Meant

LEMMA NextCuInv == CuInv /\ [CNext]_cvars => CuInv'
<1> SUFFICES ASSUME CuInv, [CNext]_cvars PROVE CuInv'
  OBVIOUS
<1>i. CuTypes /\ Holding /\ OpenedSoFar /\ Owed
  BY DEF CuInv
<1>c. /\ cu \in [at : Stages, k : 1..(Len(Arrays) + 1), cc_orig : {"harvest", "0"},
                 spi_orig : {"some", "all"}]
      /\ cu.k \in Nat /\ Len(Arrays) \in Nat /\ inits \in Nat /\ cc_mode \in 0..4
  BY <1>i, ArraysAre DEF CuTypes
<1>m. ASSUME cc_mode' = cc_mode PROVE Probing' = Probing /\ \A a : Meant(a)' = Meant(a)
  BY <1>m DEF Probing, Meant
<1>1. CASE LockIndex
  <2>1. /\ cu.at = "out" /\ mutex' = "init" /\ inits' = inits + 1
        /\ cu' = [cu EXCEPT !.at = IF cc_mode > 0 THEN "select" ELSE "unlock"]
        /\ cc_mode' = cc_mode /\ mask' = mask /\ index' = index /\ mutex = "free"
    BY <1>1 DEF LockIndex, At, Go
  <2>2. cu'.k = 1 /\ cu'.at = IF cc_mode > 0 THEN "select" ELSE "unlock"
    BY <1>c, <1>i, <2>1 DEF Holding
  <2>3. CuTypes'
    BY <1>c, <1>i, <2>1 DEF CuTypes, Stages
  <2>4. Holding'
    BY <1>i, <1>c, <2>1, <2>2 DEF Holding, OnArray
  <2>5. OpenedSoFar'
    <3>1. cc_mode = 0 => \A a \in Array : Meant(a) = Harvested
      BY DEF Meant
    <3> QED
      BY <1>i, <1>c, <1>m, <2>1, <2>2, <3>1 DEF OpenedSoFar, OnArray
  <2>6. Owed'
    <3>1. cu'.at \in {"select", "unlock"}
      BY <2>2
    <3> QED
      BY <1>i, <1>m, <2>1, <3>1 DEF Owed
  <2> QED
    BY <2>3, <2>4, <2>5, <2>6 DEF CuInv
<1>2. CASE SelectArray
  <2>1. /\ cu.at = "select" /\ cc_mode' = cc_mode /\ mask' = mask /\ mutex' = mutex /\ inits' = inits
    BY <1>2 DEF SelectArray, At
  <2>2. CASE cu.k > Len(Arrays)
    <3>1. index' = ALL /\ cu' = [cu EXCEPT !.at = "unlock", !.k = 1]
      BY <1>2, <2>2 DEF SelectArray
    <3>2. /\ cu'.at = "unlock" /\ cu'.k = 1
          /\ cu' \in [at : Stages, k : 1..(Len(Arrays) + 1), cc_orig : {"harvest", "0"},
                      spi_orig : {"some", "all"}]
      <4>1. 1 \in 1..(Len(Arrays) + 1)
        BY <1>c
      <4> QED
        BY <1>c, <3>1, <4>1 DEF Stages
    <3>3. CuTypes'
      BY <1>i, <2>1, <3>1, <3>2 DEF CuTypes
    <3>4. Holding'
      BY <1>i, <2>1, <3>1, <3>2 DEF Holding, OnArray
    <3>5. OpenedSoFar'
      <4>1. ~Probing => \A a \in Array : mask[a] = Meant(a)
        BY <1>c, <1>i, <2>1, <2>2, ArraysAre DEF OpenedSoFar
      <4> QED
        BY <1>i, <1>m, <2>1, <3>2, <4>1 DEF OpenedSoFar, OnArray
    <3>6. Owed'
      BY <1>i, <1>m, <2>1, <3>2 DEF Owed
    <3> QED
      BY <3>3, <3>4, <3>5, <3>6 DEF CuInv
  <2>3. CASE cu.k <= Len(Arrays) /\ cc_mode = 2 /\ cu.k > 1
    <3>1. index' = index /\ cu' = [cu EXCEPT !.k = cu.k + 1]
      BY <1>2, <1>c, <2>3 DEF SelectArray
    <3>2. cu'.at = "select" /\ cu'.k = cu.k + 1
      BY <1>c, <2>1, <3>1
    <3>3. CuTypes'
      BY <1>c, <1>i, <2>1, <2>3, <3>1 DEF CuTypes
    <3>4. Holding'
      BY <1>i, <2>1, <3>1, <3>2 DEF Holding, OnArray
    <3>5. OpenedSoFar'
      <4>1. ~Probing /\ Arrays[cu.k] \in Array
        BY <1>c, <2>3, ArraysAre DEF Probing
      <4>2. mask[Arrays[cu.k]] = Meant(Arrays[cu.k])
        <5>1. CASE Arrays[cu.k] = Arrays[1]
          BY <1>c, <1>i, <2>1, <2>3, <4>1, <5>1, ArraysAre DEF OpenedSoFar
        <5>2. CASE Arrays[cu.k] # Arrays[1]
          BY <1>i, <2>3, <4>1, <5>2 DEF OpenedSoFar, Meant
        <5> QED
          BY <5>1, <5>2
      <4>3. \A j \in 1..Len(Arrays) : j < cu.k + 1 => mask[Arrays[j]] = Meant(Arrays[j])
        <5>1. \A j \in 1..Len(Arrays) : j < cu.k + 1 => j < cu.k \/ j = cu.k
          BY <1>c
        <5>2. \A j \in 1..Len(Arrays) : j < cu.k => mask[Arrays[j]] = Meant(Arrays[j])
          BY <1>i, <2>1, <4>1 DEF OpenedSoFar
        <5> QED
          BY <4>2, <5>1, <5>2
      <4> QED
        BY <1>i, <1>m, <2>1, <3>2, <4>1, <4>3 DEF OpenedSoFar, OnArray
    <3>6. Owed'
      BY <1>i, <1>m, <2>1, <3>1, <3>2 DEF Owed
    <3> QED
      BY <3>3, <3>4, <3>5, <3>6 DEF CuInv
  <2>4. CASE cu.k <= Len(Arrays) /\ ~(cc_mode = 2 /\ cu.k > 1)
    <3>1. index' = Arrays[cu.k] /\ cu' = [cu EXCEPT !.at = "cc"]
      BY <1>2, <1>c, <2>4 DEF SelectArray, Go
    <3>2. cu'.at = "cc" /\ cu'.k = cu.k
      BY <1>c, <3>1
    <3>3. CuTypes'
      BY <1>c, <1>i, <2>1, <2>4, <3>1, ArraysAre DEF CuTypes, Stages
    <3>4. Holding'
      BY <1>i, <1>c, <2>1, <2>4, <3>1, <3>2 DEF Holding, OnArray
    <3>5. OpenedSoFar'
      BY <1>i, <1>m, <2>1, <3>2 DEF OpenedSoFar, OnArray
    <3>6. Owed'
      BY <1>i, <1>m, <2>1, <3>2 DEF Owed
    <3> QED
      BY <3>3, <3>4, <3>5, <3>6 DEF CuInv
  <2> QED
    BY <1>c, <2>2, <2>3, <2>4
(* The array in hand: Opened as far as the function has come.              *)
<1>w. ASSUME NEW reg \in {"cc", "spi", "rlc"}, NEW value, value = (IF reg = "cc" THEN "0" ELSE "all"),
             cu.at \in OnArray, ~Probing, cc_mode' = cc_mode, inits' = inits, Write(reg, value)
      PROVE  /\ inits # 0
             /\ \A a \in Array : Meant(a) = Harvested => mask'[a] = Harvested
             /\ \A j \in 1..Len(Arrays) : j < cu.k => mask'[Arrays[j]] = Meant(Arrays[j])
  <2>1. /\ index \in Array /\ index = Arrays[cu.k] /\ cu.k \in 1..Len(Arrays)
        /\ mask' \in [Array -> [cc : {"harvest", "0"}, spi : {"some", "all"}, rlc : {"some", "all"}]]
        /\ \A a \in Array : a # index => mask'[a] = mask[a]
        /\ mask'[index].cc = IF reg = "cc" THEN value ELSE mask[index].cc
        /\ mask'[index].spi = IF reg = "spi" THEN value ELSE mask[index].spi
        /\ mask'[index].rlc = IF reg = "rlc" THEN value ELSE mask[index].rlc
    BY <1>i, <1>w, WriteFields
  <2>2. Meant(index) = Opened
    BY <1>i, <1>w, InHand
  <2>3. mask[index] = Opened => mask'[index] = Opened
    BY <1>w, <2>1 DEF Opened
  <2>4. Opened # Harvested
    BY DEF Opened, Harvested
  <2>5. inits # 0
    BY <1>c, <1>i, <1>w DEF Holding, OnArray
  <2>6. \A j \in 1..Len(Arrays) : j < cu.k => mask[Arrays[j]] = Meant(Arrays[j])
    BY <1>i, <1>w DEF OpenedSoFar
  <2>7. \A j \in 1..Len(Arrays) : j < cu.k => mask'[Arrays[j]] = Meant(Arrays[j])
    <3> SUFFICES ASSUME NEW j \in 1..Len(Arrays), j < cu.k PROVE mask'[Arrays[j]] = Meant(Arrays[j])
      OBVIOUS
    <3>1. Arrays[j] \in Array
      BY ArraysAre
    <3> QED
      BY <2>1, <2>2, <2>3, <2>6, <3>1
  <2>8. \A a \in Array : Meant(a) = Harvested => mask'[a] = Harvested
    BY <1>i, <1>w, <2>1, <2>2, <2>4 DEF OpenedSoFar
  <2> QED
    BY <2>5, <2>7, <2>8
<1>3. CASE ClearCc
  <2>1. /\ cu.at = "cc" /\ cu.at \in OnArray /\ Write("cc", "0") /\ cc_mode' = cc_mode
        /\ index' = index /\ mutex' = mutex /\ inits' = inits
        /\ cu' = [cu EXCEPT !.at = "spi", !.cc_orig = ReadOf("cc")]
    BY <1>3 DEF ClearCc, At, OnArray
  <2>2. /\ index \in Array /\ index = Arrays[cu.k] /\ cu.k \in 1..Len(Arrays)
        /\ mask' \in [Array -> [cc : {"harvest", "0"}, spi : {"some", "all"}, rlc : {"some", "all"}]]
        /\ \A a \in Array : a # index => mask'[a] = mask[a]
        /\ mask'[index].cc = "0" /\ mask'[index].spi = mask[index].spi
    BY <1>i, <2>1, WriteFields
  <2>3. ReadOf("cc") = mask[index].cc /\ mask[index].cc \in {"harvest", "0"}
    BY <1>i, <2>2, ArraysAre DEF ReadOf, CuTypes
  <2>4. /\ cu'.at = "spi" /\ cu'.k = cu.k /\ cu'.cc_orig = mask[index].cc
        /\ cu' \in [at : Stages, k : 1..(Len(Arrays) + 1), cc_orig : {"harvest", "0"},
                    spi_orig : {"some", "all"}]
    BY <1>c, <2>1, <2>3 DEF Stages
  <2>5. CuTypes'
    BY <1>i, <2>1, <2>2, <2>4 DEF CuTypes
  <2>6. Holding'
    BY <1>i, <2>1, <2>4 DEF Holding, OnArray
  <2>7. OpenedSoFar'
    <3>1. CASE Probing
      BY <1>m, <2>1, <3>1 DEF OpenedSoFar
    <3>2. CASE ~Probing
      <4>1. /\ inits # 0
            /\ \A a \in Array : Meant(a) = Harvested => mask'[a] = Harvested
            /\ \A j \in 1..Len(Arrays) : j < cu.k => mask'[Arrays[j]] = Meant(Arrays[j])
        BY <1>w, <2>1, <3>2
      <4> QED
        BY <1>m, <2>1, <2>2, <2>4, <4>1 DEF OpenedSoFar, OnArray
    <3> QED
      BY <3>1, <3>2
  <2>8. Owed'
    <3> SUFFICES ASSUME Probing PROVE Owed'
      BY <1>m, <2>1 DEF Owed
    <3>1. \A a \in Array : mask[a].cc = "harvest" /\ mask[a].spi = "some"
      BY <1>i, <2>1 DEF Owed
    <3>2. \A a \in Array : /\ mask'[a].cc = "harvest" \/ a = index
                           /\ mask'[a].spi = "some"
      BY <2>2, <3>1
    <3> QED
      BY <2>1, <2>2, <2>4, <3>1, <3>2 DEF Owed
  <2> QED
    BY <2>5, <2>6, <2>7, <2>8 DEF CuInv
<1>4. CASE OpenSpi
  <2>1. /\ cu.at = "spi" /\ cu.at \in OnArray /\ Write("spi", "all") /\ cc_mode' = cc_mode
        /\ index' = index /\ mutex' = mutex /\ inits' = inits
        /\ cu' = [cu EXCEPT !.at = "rlc", !.spi_orig = ReadOf("spi")]
    BY <1>4 DEF OpenSpi, At, OnArray
  <2>2. /\ index \in Array /\ index = Arrays[cu.k] /\ cu.k \in 1..Len(Arrays)
        /\ mask' \in [Array -> [cc : {"harvest", "0"}, spi : {"some", "all"}, rlc : {"some", "all"}]]
        /\ \A a \in Array : a # index => mask'[a] = mask[a]
        /\ mask'[index].cc = mask[index].cc /\ mask'[index].spi = "all"
    BY <1>i, <2>1, WriteFields
  <2>3. ReadOf("spi") = mask[index].spi /\ mask[index].spi \in {"some", "all"}
    BY <1>i, <2>2, ArraysAre DEF ReadOf, CuTypes
  <2>4. /\ cu'.at = "rlc" /\ cu'.k = cu.k /\ cu'.cc_orig = cu.cc_orig /\ cu'.spi_orig = mask[index].spi
        /\ cu' \in [at : Stages, k : 1..(Len(Arrays) + 1), cc_orig : {"harvest", "0"},
                    spi_orig : {"some", "all"}]
    BY <1>c, <2>1, <2>3 DEF Stages
  <2>5. CuTypes'
    BY <1>i, <2>1, <2>2, <2>4 DEF CuTypes
  <2>6. Holding'
    BY <1>i, <2>1, <2>4 DEF Holding, OnArray
  <2>7. OpenedSoFar'
    <3>1. CASE Probing
      BY <1>m, <2>1, <3>1 DEF OpenedSoFar
    <3>2. CASE ~Probing
      <4>1. /\ inits # 0
            /\ \A a \in Array : Meant(a) = Harvested => mask'[a] = Harvested
            /\ \A j \in 1..Len(Arrays) : j < cu.k => mask'[Arrays[j]] = Meant(Arrays[j])
        BY <1>w, <2>1, <3>2
      <4>2. mask[Arrays[cu.k]].cc = "0"
        BY <1>i, <2>1, <3>2 DEF OpenedSoFar
      <4> QED
        BY <1>m, <2>1, <2>2, <2>4, <4>1, <4>2 DEF OpenedSoFar, OnArray
    <3> QED
      BY <3>1, <3>2
  <2>8. Owed'
    <3> SUFFICES ASSUME Probing PROVE Owed'
      BY <1>m, <2>1 DEF Owed
    <3>1. \A a \in Array : /\ mask[a].cc = "harvest" \/ a = index
                           /\ mask[a].spi = "some"
      BY <1>i, <2>1 DEF Owed
    <3>2. cu.cc_orig = "harvest"
      BY <1>i, <2>1 DEF Owed
    <3>3. \A a \in Array : /\ mask'[a].cc = "harvest" \/ a = index
                           /\ mask'[a].spi = "some" \/ a = index
      BY <2>2, <3>1
    <3> QED
      BY <2>1, <2>2, <2>4, <3>1, <3>2, <3>3 DEF Owed
  <2> QED
    BY <2>5, <2>6, <2>7, <2>8 DEF CuInv
<1>5. CASE OpenRlc
  <2>1. /\ cu.at = "rlc" /\ cu.at \in OnArray /\ Write("rlc", "all") /\ cc_mode' = cc_mode
        /\ index' = index /\ mutex' = mutex /\ inits' = inits
        /\ cu' = IF Probing THEN [cu EXCEPT !.at = "restoreCc"]
                            ELSE [cu EXCEPT !.at = "select", !.k = @ + 1]
    BY <1>5 DEF OpenRlc, NextArray, Go, At, OnArray
  <2>2. /\ index \in Array /\ index = Arrays[cu.k] /\ cu.k \in 1..Len(Arrays)
        /\ mask' \in [Array -> [cc : {"harvest", "0"}, spi : {"some", "all"}, rlc : {"some", "all"}]]
        /\ \A a \in Array : a # index => mask'[a] = mask[a]
        /\ mask'[index].cc = mask[index].cc /\ mask'[index].spi = mask[index].spi
        /\ mask'[index].rlc = "all"
    BY <1>i, <2>1, WriteFields
  <2>3. CASE Probing
    <3>1. /\ cu'.at = "restoreCc" /\ cu'.k = cu.k /\ cu'.cc_orig = cu.cc_orig
          /\ cu'.spi_orig = cu.spi_orig
          /\ cu' \in [at : Stages, k : 1..(Len(Arrays) + 1), cc_orig : {"harvest", "0"},
                      spi_orig : {"some", "all"}]
      BY <1>c, <2>1, <2>3 DEF Stages
    <3>2. CuTypes'
      BY <1>i, <2>1, <2>2, <3>1 DEF CuTypes
    <3>3. Holding'
      BY <1>i, <1>m, <2>1, <2>3, <3>1 DEF Holding, OnArray
    <3>4. OpenedSoFar'
      BY <1>m, <2>1, <2>3 DEF OpenedSoFar
    <3>5. Owed'
      BY <1>i, <1>m, <2>1, <2>2, <2>3, <3>1 DEF Owed
    <3> QED
      BY <3>2, <3>3, <3>4, <3>5 DEF CuInv
  <2>4. CASE ~Probing
    <3>1. /\ cu'.at = "select" /\ cu'.k = cu.k + 1
          /\ cu' \in [at : Stages, k : 1..(Len(Arrays) + 1), cc_orig : {"harvest", "0"},
                      spi_orig : {"some", "all"}]
      <4>1. cu.k + 1 \in 1..(Len(Arrays) + 1) /\ cu' = [cu EXCEPT !.at = "select", !.k = cu.k + 1]
        BY <1>c, <2>1, <2>2, <2>4
      <4> QED
        BY <1>c, <4>1 DEF Stages
    <3>2. CuTypes'
      BY <1>i, <2>1, <2>2, <3>1 DEF CuTypes
    <3>3. Holding'
      BY <1>i, <1>m, <2>1, <2>4, <3>1 DEF Holding, OnArray
    <3>4. OpenedSoFar'
      <4>1. /\ inits # 0
            /\ \A a \in Array : Meant(a) = Harvested => mask'[a] = Harvested
            /\ \A j \in 1..Len(Arrays) : j < cu.k => mask'[Arrays[j]] = Meant(Arrays[j])
        BY <1>w, <2>1, <2>4
      <4>2. mask[Arrays[cu.k]].cc = "0" /\ mask[Arrays[cu.k]].spi = "all"
        BY <1>i, <2>1, <2>4 DEF OpenedSoFar
      <4>3. mask'[index] = Opened
        BY <2>2, <4>2 DEF Opened
      <4>4. mask'[Arrays[cu.k]] = Meant(Arrays[cu.k])
        BY <1>i, <2>1, <2>2, <2>4, <4>3, InHand
      <4>5. \A j \in 1..Len(Arrays) : j < cu.k + 1 => j < cu.k \/ j = cu.k
        BY <1>c
      <4>6. \A j \in 1..Len(Arrays) : j < cu'.k => mask'[Arrays[j]] = Meant(Arrays[j])
        BY <3>1, <4>1, <4>4, <4>5
      <4> QED
        BY <1>m, <2>1, <3>1, <4>1, <4>6 DEF OpenedSoFar, OnArray
    <3>5. Owed'
      BY <1>m, <2>1, <2>4 DEF Owed
    <3> QED
      BY <3>2, <3>3, <3>4, <3>5 DEF CuInv
  <2> QED
    BY <2>3, <2>4
<1>6. CASE RestoreCc
  <2>1. /\ cu.at = "restoreCc" /\ cu.at \in OnArray /\ Write("cc", cu.cc_orig) /\ cc_mode' = cc_mode
        /\ index' = index /\ mutex' = mutex /\ inits' = inits
        /\ cu' = [cu EXCEPT !.at = "restoreSpi"]
    BY <1>6 DEF RestoreCc, Go, At, OnArray
  <2>2. Probing
    BY <1>i, <2>1 DEF Holding
  <2>3. cu.cc_orig = "harvest" /\ cu.spi_orig = "some"
    BY <1>i, <2>1, <2>2 DEF Owed
  <2>4. /\ index \in Array /\ index = Arrays[cu.k] /\ cu.k \in 1..Len(Arrays)
        /\ mask' \in [Array -> [cc : {"harvest", "0"}, spi : {"some", "all"}, rlc : {"some", "all"}]]
        /\ \A a \in Array : a # index => mask'[a] = mask[a]
        /\ mask'[index].cc = "harvest" /\ mask'[index].spi = mask[index].spi
    BY <1>i, <2>1, <2>3, WriteFields
  <2>5. /\ cu'.at = "restoreSpi" /\ cu'.k = cu.k /\ cu'.cc_orig = cu.cc_orig
        /\ cu'.spi_orig = cu.spi_orig
        /\ cu' \in [at : Stages, k : 1..(Len(Arrays) + 1), cc_orig : {"harvest", "0"},
                    spi_orig : {"some", "all"}]
    BY <1>c, <2>1 DEF Stages
  <2>6. CuTypes'
    BY <1>i, <2>1, <2>4, <2>5 DEF CuTypes
  <2>7. Holding'
    BY <1>i, <1>m, <2>1, <2>2, <2>5 DEF Holding, OnArray
  <2>8. OpenedSoFar'
    BY <1>m, <2>1, <2>2 DEF OpenedSoFar
  <2>9. Owed'
    BY <1>i, <1>m, <2>1, <2>2, <2>3, <2>4, <2>5 DEF Owed
  <2> QED
    BY <2>6, <2>7, <2>8, <2>9 DEF CuInv
<1>7. CASE RestoreSpi
  <2>1. /\ cu.at = "restoreSpi" /\ cu.at \in OnArray /\ Write("spi", cu.spi_orig)
        /\ cc_mode' = cc_mode /\ index' = index /\ mutex' = mutex /\ inits' = inits
        /\ cu' = [cu EXCEPT !.at = "select", !.k = @ + 1]
    BY <1>7 DEF RestoreSpi, NextArray, At, OnArray
  <2>2. Probing
    BY <1>i, <2>1 DEF Holding
  <2>3. cu.spi_orig = "some"
    BY <1>i, <2>1, <2>2 DEF Owed
  <2>4. /\ index \in Array /\ index = Arrays[cu.k] /\ cu.k \in 1..Len(Arrays)
        /\ mask' \in [Array -> [cc : {"harvest", "0"}, spi : {"some", "all"}, rlc : {"some", "all"}]]
        /\ \A a \in Array : a # index => mask'[a] = mask[a]
        /\ mask'[index].cc = mask[index].cc /\ mask'[index].spi = "some"
    BY <1>i, <2>1, <2>3, WriteFields
  <2>5. /\ cu'.at = "select" /\ cu'.k = cu.k + 1
        /\ cu' \in [at : Stages, k : 1..(Len(Arrays) + 1), cc_orig : {"harvest", "0"},
                    spi_orig : {"some", "all"}]
    <3>1. cu.k + 1 \in 1..(Len(Arrays) + 1) /\ cu' = [cu EXCEPT !.at = "select", !.k = cu.k + 1]
      BY <1>c, <2>1, <2>4
    <3> QED
      BY <1>c, <3>1 DEF Stages
  <2>6. CuTypes'
    BY <1>i, <2>1, <2>4, <2>5 DEF CuTypes
  <2>7. Holding'
    BY <1>i, <1>m, <2>1, <2>2, <2>5 DEF Holding, OnArray
  <2>8. OpenedSoFar'
    BY <1>m, <2>1, <2>2 DEF OpenedSoFar
  <2>9. Owed'
    BY <1>i, <1>m, <2>1, <2>2, <2>4, <2>5 DEF Owed
  <2> QED
    BY <2>6, <2>7, <2>8, <2>9 DEF CuInv
<1>8. CASE UnlockIndex
  <2>1. /\ cu.at = "unlock" /\ mutex' = "free" /\ cu' = [cu EXCEPT !.at = "out"]
        /\ cc_mode' = cc_mode /\ mask' = mask /\ index' = index /\ inits' = inits
    BY <1>8 DEF UnlockIndex, Go, At
  <2>2. /\ cu'.at = "out" /\ cu'.k = cu.k
        /\ cu' \in [at : Stages, k : 1..(Len(Arrays) + 1), cc_orig : {"harvest", "0"},
                    spi_orig : {"some", "all"}]
    BY <1>c, <2>1 DEF Stages
  <2>3. CuTypes'
    BY <1>i, <2>1, <2>2 DEF CuTypes
  <2>4. Holding'
    BY <1>i, <2>1, <2>2 DEF Holding, OnArray
  <2>5. OpenedSoFar'
    BY <1>i, <1>m, <2>1, <2>2 DEF OpenedSoFar, OnArray
  <2>6. Owed'
    BY <1>i, <1>m, <2>1, <2>2 DEF Owed
  <2> QED
    BY <2>3, <2>4, <2>5, <2>6 DEF CuInv
<1>9. CASE OtherSelects \/ OtherReleases
  <2>1. /\ cc_mode' = cc_mode /\ mask' = mask /\ cu' = cu /\ inits' = inits
        /\ mutex \in {"free", "other"} /\ mutex' \in {"free", "other"}
        /\ index' \in Array \union {ALL} /\ (mutex' = "free" => index' = ALL)
    BY <1>9 DEF OtherSelects, OtherReleases
  <2>2. cu.at = "out"
    BY <1>i, <2>1 DEF Holding
  <2>3. CuTypes'
    BY <1>i, <2>1 DEF CuTypes
  <2>4. Holding'
    BY <1>i, <2>1, <2>2 DEF Holding, OnArray
  <2>5. OpenedSoFar'
    BY <1>i, <1>m, <2>1, <2>2 DEF OpenedSoFar, OnArray
  <2>6. Owed'
    BY <1>i, <1>m, <2>1, <2>2 DEF Owed
  <2> QED
    BY <2>3, <2>4, <2>5, <2>6 DEF CuInv
<1>10. CASE UNCHANGED cvars
  BY <1>i, <1>m, <1>10 DEF CuInv, CuTypes, Holding, OpenedSoFar, Owed, cvars
<1> QED
  BY <1>1, <1>2, <1>3, <1>4, <1>5, <1>6, <1>7, <1>8, <1>9, <1>10 DEF CNext

(* Whenever nobody holds grbm_idx_mutex the index is on all arrays, the    *)
(* probe modes have left no trace in the two masks that count, and modes 2 *)
(* and 3 have opened what they are named for and nothing else: for any     *)
(* number of shader engines and arrays, and any number of hw_inits.        *)
THEOREM MasksWhenFree == CSpec => []CuMasksWhenFree
<1>1. CuInv => CuMasksWhenFree
  <2> SUFFICES ASSUME CuInv, mutex = "free" PROVE CuMasksWhenFree
    BY DEF CuMasksWhenFree
  <2>1. CuTypes /\ Holding /\ OpenedSoFar /\ Owed
    BY DEF CuInv
  <2>2. cu.at = "out" /\ index = ALL
    BY <2>1 DEF Holding, OnArray
  <2>3. \A a \in Array : mask[a] \in [cc : {"harvest", "0"}, spi : {"some", "all"}, rlc : {"some", "all"}]
    BY <2>1 DEF CuTypes
  <2>4. ASSUME Probing, NEW a \in Array
        PROVE  mask[a] \in {Harvested, [Harvested EXCEPT !.rlc = "all"]}
    <3>1. mask[a].cc = "harvest" /\ mask[a].spi = "some"
      BY <2>1, <2>2, <2>4 DEF Owed
    <3> QED
      BY <2>3, <3>1 DEF Harvested
  <2>5. ASSUME ~Probing, NEW a \in Array
        PROVE  mask[a] = IF inits > 0 THEN Meant(a) ELSE Harvested
    BY <2>1, <2>2, <2>5 DEF OpenedSoFar, CuTypes
  <2> QED
    BY <2>2, <2>4, <2>5 DEF CuMasksWhenFree
<1> QED
  BY <1>1, InitCuInv, NextCuInv, PTL DEF CSpec

-----------------------------------------------------------------------------
(* The installation.  Present, the steps of the script and the types; what *)
(* a run has written is known from its step on.                            *)
Finished == {"manifest", "fillManifest", "sums", "pass"}
Syncing == {"sync", "createCopy", "fillCopy"} \union Finished
Adding == {"remove", "add0", "add1", "check"}
Installing == {"install", "headers"} \union Adding
BeforeInstall == {"backupLimine", "fillLimine", "backupDropin", "fillBackup", "openDropin", "fillDropin"}

PTypes ==
  /\ PTypeOK
  /\ pc \in {"idle"} \union BeforeInstall \union Installing \union Syncing
  /\ present.dropin \in {"absent", "user"} /\ present.copy \subseteq Copies
  /\ synced \subseteq present.copy /\ destination \subseteq present.copy
  /\ copy \in [Copies -> Menu \union {Absent, Torn}]

(* The user's files are saved before they are touched; a backup that is    *)
(* not whole is being written, or a run was stopped while it was.          *)
SavedFirst ==
  /\ limine_before = Absent => limine = NoEntries /\ pc \in {"idle", "backupLimine"}
  /\ pc = "fillLimine" => limine = NoEntries
  /\ limine_before = Torn => pc = "fillLimine" \/ cut["fillLimine"] > 0
  /\ present.dropin = "user" =>
       /\ dropin_before \in {"absent", "user", "torn"}
       /\ dropin_before = "absent" =>
            dropin = "user" /\ pc \in {"idle", "backupLimine", "fillLimine", "backupDropin"}
       /\ pc = "fillBackup" => dropin = "user"
       /\ dropin_before = "torn" => pc = "fillBackup" \/ cut["fillBackup"] > 0

(* The drop-in is ours before any entry is made.                           *)
DropinFirst ==
  /\ pc = "fillDropin" => dropin = "torn"
  /\ pc \in Installing \union Syncing => dropin = "ours"
  /\ pc \in Adding \union Syncing => packages = {"kernel", "headers"}

EntriesMade ==
  /\ pc \in {"add1", "check"} \union Syncing => limine["mode0"] = "own"
  /\ pc \in {"check"} \union Syncing => limine["mode1"] = "own"

(* The copies that this run has written are of the menu as it is, and at   *)
(* its end these are all that are left.                                    *)
CopiesMade ==
  /\ pc \in BeforeInstall \union Installing => synced = {}
  /\ pc \in Syncing => \A c \in synced : copy[c] = limine
  /\ pc \in Finished => present.copy \ Gone \subseteq synced

(* The copy in hand: gone, then torn, and not among those written.         *)
CopyInHand ==
  /\ destination = {} <=> pc \notin {"createCopy", "fillCopy"}
  /\ pc \in {"createCopy", "fillCopy"} =>
       \E c \in present.copy \ synced :
         destination = {c} /\ copy[c] = IF pc = "createCopy" THEN Absent ELSE Torn

(* One copy is gone for each run that stopped where none was in its place, *)
(* and the one in hand.                                                    *)
GoneByStops == Cardinality(Gone) = cut["createCopy"] + (IF pc = "createCopy" THEN 1 ELSE 0)

RecordsMade ==
  /\ pc \in {"sums", "pass"} => manifest = "written"
  /\ pc = "pass" => sums = limine

PInv == /\ PTypes /\ SavedFirst /\ DropinFirst /\ EntriesBoot
        /\ EntriesMade /\ CopiesMade /\ CopyInHand /\ GoneByStops /\ RecordsMade

(* A menu is neither absent nor torn.                                      *)
LEMMA MenusAre ==
  /\ NoEntries \in Menu /\ Absent \notin Menu /\ Torn \notin Menu /\ Absent # Torn
  /\ Absent["kernel"] = "absent" /\ Torn["kernel"] = "torn"
BY DEF Menu, NoEntries, Absent, Torn, Entries

LEMMA InitPInv == PInit => PInv
<1> SUFFICES ASSUME PInit PROVE PInv
  OBVIOUS
<1>1. /\ present.dropin = dropin /\ present.copy = {c \in Copies : copy[c] # Absent}
      /\ copy \in [Copies -> {Absent, NoEntries}]
  BY DEF PInit
<1>2. PTypeOK
  BY <1>1, MenusAre, ProbeAssumption DEF PInit, PTypeOK
<1>3. PTypes
  BY <1>1, <1>2, MenusAre DEF PInit, PTypes
<1>4. SavedFirst
  BY <1>1, MenusAre DEF PInit, SavedFirst
<1>5. EntriesBoot
  <2>1. \A menu \in Menus : menu = NoEntries
    BY <1>1 DEF PInit, Menus
  <2> QED
    BY <2>1 DEF EntriesBoot, NoEntries
<1>6. GoneByStops
  <2>1. Gone = {}
    BY <1>1 DEF Gone
  <2> QED
    BY <2>1, FS_EmptySet DEF PInit, GoneByStops, Once
<1> QED
  BY <1>3, <1>4, <1>5, <1>6 DEF PInit, PInv, DropinFirst, EntriesMade, CopiesMade, CopyInHand, RecordsMade,
     BeforeInstall, Installing, Adding, Syncing, Finished

(* The counters only grow, and one counts the stop of a command of Once.   *)
LEMMA StopsCount ==
  ASSUME PTypes, Stop
  PROVE  /\ cut' \in [Once -> Nat]
         /\ \A at \in Once : cut'[at] = IF pc = at THEN cut[at] + 1 ELSE cut[at]
BY DEF Stop, PTypes, PTypeOK

(* Where each action leads from, and what it leaves alone.                 *)
LEMMA NextPTypes == PInv /\ [PNext]_pvars => PTypes'
<1> SUFFICES ASSUME PInv, [PNext]_pvars PROVE PTypes'
  OBVIOUS
<1>i. PTypes /\ PTypeOK /\ SavedFirst
  BY DEF PInv, PTypes
<1> USE DEF BeforeInstall, Installing, Adding, Syncing, Finished
<1>1. CASE Start
  <2>1. runs' \in 0..MaxRuns
    BY <1>1, <1>i, ProbeAssumption DEF Start, PTypeOK
  <2> QED
    BY <1>1, <1>i, <2>1 DEF Start, files, PTypes, PTypeOK
<1>2. CASE Stop
  BY <1>2, <1>i, StopsCount DEF Stop, files, PTypes, PTypeOK
<1>3. CASE BackupLimine
  BY <1>3, <1>i DEF BackupLimine, Step, Goto, loop, PTypes, PTypeOK
<1>4. CASE FillLimine
  BY <1>4, <1>i DEF FillLimine, Step, Goto, loop, PTypes, PTypeOK, SavedFirst
<1>5. CASE BackupDropin \/ FillBackup \/ OpenDropin \/ FillDropin
  BY <1>5, <1>i DEF BackupDropin, FillBackup, OpenDropin, FillDropin, Step, Goto, loop, PTypes, PTypeOK
<1>6. CASE InstallKernel \/ AddMode0 \/ AddMode1
  <2>1. limine' \in Menu
    BY <1>6, <1>i DEF InstallKernel, AddMode0, AddMode1, AddEntry, FromDropin, PTypeOK, Menu, Entries
  <2> QED
    BY <1>6, <1>i, <2>1 DEF InstallKernel, AddMode0, AddMode1, AddEntry, Step, Goto, loop, PTypes, PTypeOK
<1>7. CASE InstallHeaders \/ Installed \/ CheckEntries \/ Synced
  BY <1>7, <1>i DEF InstallHeaders, Installed, CheckEntries, Synced, Step, Goto, files, loop, PTypes, PTypeOK
<1>8. CASE RemoveEntries
  <2>1. limine' \in Menu
    BY <1>8, <1>i DEF RemoveEntries, PTypeOK, Menu
  <2> QED
    BY <1>8, <1>i, <2>1 DEF RemoveEntries, Step, Goto, loop, PTypes, PTypeOK
<1>9. CASE UnlinkCopy
  <2>1. PICK c \in Destinations : copy' = [copy EXCEPT ![c] = Absent] /\ destination' = {c}
    BY <1>9 DEF UnlinkCopy, UnlinkOne
  <2>2. c \in present.copy
    BY <1>i, <2>1 DEF Destinations, PTypeOK
  <2>3. /\ \A d \in Copies : copy'[d] = IF d = c THEN Absent ELSE copy[d]
        /\ copy' \in [Copies -> Menu \union {Absent, Torn}]
    BY <2>1, <2>2, <1>i DEF PTypes
  <2> QED
    BY <1>9, <1>i, <2>1, <2>2, <2>3 DEF UnlinkCopy, UnlinkOne, Goto, PTypes, PTypeOK
<1>10. CASE CreateCopy \/ FillCopy
  <2>1. PICK written \in Menu \union {Torn} :
          \A d \in Copies : copy'[d] = IF d \in destination THEN written ELSE copy[d]
    BY <1>10, <1>i DEF CreateCopy, FillCopy, FillAnd, PTypes, PTypeOK
  <2>2. copy' \in [Copies -> Menu \union {Absent, Torn}]
    BY <1>10, <1>i, <2>1 DEF CreateCopy, FillCopy, FillAnd, PTypes
  <2> QED
    BY <1>10, <1>i, <2>1, <2>2 DEF CreateCopy, FillCopy, FillAnd, Step, Goto, loop, PTypes, PTypeOK
<1>11. CASE OpenManifest \/ FillManifest \/ Pass
  BY <1>11, <1>i DEF OpenManifest, FillManifest, Pass, Step, Goto, loop, PTypes, PTypeOK
<1>12. CASE Boot
  BY <1>12, <1>i DEF Boot, files, loop, PTypes, PTypeOK
<1>13. CASE UNCHANGED pvars
  BY <1>13, <1>i DEF pvars, files, loop, PTypes, PTypeOK
<1> QED
  BY <1>1, <1>2, <1>3, <1>4, <1>5, <1>6, <1>7, <1>8, <1>9, <1>10, <1>11, <1>12, <1>13 DEF PNext

LEMMA NextSaved == PInv /\ [PNext]_pvars => SavedFirst'
<1> SUFFICES ASSUME PInv, [PNext]_pvars PROVE SavedFirst'
  OBVIOUS
<1>i. PTypes /\ PTypeOK /\ SavedFirst /\ DropinFirst
  BY DEF PInv, PTypes
<1> USE DEF BeforeInstall, Installing, Adding, Syncing, Finished
<1>1. CASE Start \/ Boot \/ UNCHANGED pvars
  BY <1>1, <1>i DEF Start, Boot, pvars, files, SavedFirst
<1>12. CASE Stop
  <2>1. \A at \in {"fillLimine", "fillBackup"} : pc = at \/ cut[at] > 0 => cut'[at] > 0
    BY <1>12, <1>i, StopsCount DEF PTypeOK, Once
  <2> QED
    BY <1>12, <1>i, <2>1 DEF Stop, files, SavedFirst
<1>2. CASE BackupLimine
  BY <1>2, <1>i, MenusAre DEF BackupLimine, Step, Goto, SavedFirst
<1>3. CASE FillLimine
  BY <1>3, <1>i, MenusAre DEF FillLimine, Step, Goto, SavedFirst, PTypeOK
<1>4. CASE BackupDropin
  BY <1>4, <1>i DEF BackupDropin, Step, Goto, SavedFirst
<1>5. CASE FillBackup \/ OpenDropin \/ FillDropin
  BY <1>5, <1>i DEF FillBackup, OpenDropin, FillDropin, Step, Goto, SavedFirst
<1>6. CASE InstallKernel \/ RemoveEntries \/ AddMode0 \/ AddMode1
  BY <1>6, <1>i DEF InstallKernel, RemoveEntries, AddMode0, AddMode1, AddEntry, Step, Goto, SavedFirst
<1>7. CASE InstallHeaders \/ Installed \/ CheckEntries \/ Synced
  BY <1>7, <1>i DEF InstallHeaders, Installed, CheckEntries, Synced, Step, Goto, files, SavedFirst
<1>8. CASE UnlinkCopy \/ CreateCopy \/ FillCopy \/ OpenManifest \/ FillManifest \/ Pass
  BY <1>8, <1>i DEF UnlinkCopy, UnlinkOne, CreateCopy, FillCopy, FillAnd, OpenManifest, FillManifest,
     Pass, Step, Goto, SavedFirst
<1> QED
  BY <1>1, <1>12, <1>2, <1>3, <1>4, <1>5, <1>6, <1>7, <1>8 DEF PNext

LEMMA NextMade ==
  PInv /\ [PNext]_pvars => DropinFirst' /\ EntriesMade' /\ RecordsMade'
<1> SUFFICES ASSUME PInv, [PNext]_pvars PROVE DropinFirst' /\ EntriesMade' /\ RecordsMade'
  OBVIOUS
<1>i. PTypes /\ PTypeOK /\ DropinFirst /\ EntriesMade /\ RecordsMade
  BY DEF PInv, PTypes
<1> USE DEF BeforeInstall, Installing, Adding, Syncing, Finished, DropinFirst, EntriesMade, RecordsMade
<1>1. CASE Start \/ Stop \/ Boot \/ UNCHANGED pvars
  BY <1>1, <1>i DEF Start, Stop, Boot, pvars, files
<1>2. CASE BackupLimine \/ FillLimine \/ BackupDropin \/ FillBackup \/ OpenDropin \/ FillDropin
  BY <1>2, <1>i DEF BackupLimine, FillLimine, BackupDropin, FillBackup, OpenDropin, FillDropin,
     Step, Goto
<1>3. CASE InstallKernel \/ InstallHeaders \/ Installed \/ RemoveEntries
  BY <1>3, <1>i DEF InstallKernel, InstallHeaders, Installed, RemoveEntries, Step, Goto, files
<1>4. CASE AddMode0 \/ AddMode1
  <2>1. DOMAIN limine = Entries
    BY <1>i DEF PTypeOK, Menu
  <2> QED
    BY <1>4, <1>i, <2>1 DEF AddMode0, AddMode1, AddEntry, FromDropin, Step, Goto, Entries
<1>5. CASE CheckEntries \/ Synced \/ UnlinkCopy \/ CreateCopy \/ FillCopy
  BY <1>5, <1>i DEF CheckEntries, Synced, UnlinkCopy, UnlinkOne, CreateCopy, FillCopy, FillAnd,
     Step, Goto, files
<1>6. CASE OpenManifest \/ FillManifest \/ Pass
  BY <1>6, <1>i DEF OpenManifest, FillManifest, Pass, Step, Goto
<1> QED
  BY <1>1, <1>2, <1>3, <1>4, <1>5, <1>6 DEF PNext

(* Every other action leaves the copies, and which are in hand, alone.     *)
AwayFromCopies ==
  BackupLimine \/ FillLimine \/ BackupDropin \/ FillBackup \/ OpenDropin \/ FillDropin
  \/ InstallKernel \/ InstallHeaders \/ Installed \/ RemoveEntries \/ AddMode0 \/ AddMode1
  \/ CheckEntries \/ Synced \/ OpenManifest \/ FillManifest \/ Pass

LEMMA CopiesAlone ==
  ASSUME AwayFromCopies
  PROVE  /\ UNCHANGED <<copy, loop, present, cut>>
         /\ {pc, pc'} \cap {"createCopy", "fillCopy"} = {}
BY DEF AwayFromCopies, BackupLimine, FillLimine, BackupDropin, FillBackup, OpenDropin, FillDropin,
   InstallKernel, InstallHeaders, Installed, RemoveEntries, AddMode0, AddMode1, AddEntry,
   CheckEntries, Synced, OpenManifest, FillManifest, Pass, Step, Goto, files

LEMMA NextCopyInHand == PInv /\ [PNext]_pvars => CopyInHand'
<1> SUFFICES ASSUME PInv, [PNext]_pvars PROVE CopyInHand'
  OBVIOUS
<1>i. PTypes /\ PTypeOK /\ CopyInHand
  BY DEF PInv, PTypes
<1>1. CASE Start \/ Stop \/ Boot \/ UNCHANGED pvars
  BY <1>1, <1>i DEF Start, Stop, Boot, pvars, files, loop, CopyInHand
<1>2. CASE AwayFromCopies
  BY <1>2, <1>i, CopiesAlone DEF loop, CopyInHand
<1>3. CASE UnlinkCopy
  <2>1. PICK c \in Destinations : copy' = [copy EXCEPT ![c] = Absent] /\ destination' = {c}
    BY <1>3 DEF UnlinkCopy, UnlinkOne
  <2>2. c \in present.copy \ synced /\ copy'[c] = Absent
    BY <1>i, <2>1 DEF Destinations, PTypes, PTypeOK
  <2> QED
    BY <1>3, <2>1, <2>2 DEF UnlinkCopy, UnlinkOne, Goto, CopyInHand
<1>4. CASE CreateCopy
  <2>1. PICK c \in present.copy \ synced : destination = {c}
    BY <1>4, <1>i DEF CreateCopy, Step, Goto, CopyInHand
  <2>2. copy'[c] = Torn
    BY <1>4, <1>i, <2>1 DEF CreateCopy, PTypes
  <2> QED
    BY <1>4, <2>1, <2>2 DEF CreateCopy, Step, Goto, loop, CopyInHand
<1>5. CASE FillCopy
  BY <1>5 DEF FillCopy, FillAnd, Goto, CopyInHand
<1> QED
  BY <1>1, <1>2, <1>3, <1>4, <1>5 DEF PNext, AwayFromCopies

LEMMA NextGone == PInv /\ [PNext]_pvars => GoneByStops'
<1> SUFFICES ASSUME PInv, [PNext]_pvars PROVE GoneByStops'
  OBVIOUS
<1>i. PTypes /\ PTypeOK /\ CopyInHand /\ GoneByStops
  BY DEF PInv, PTypes
<1>n. cut["createCopy"] \in Nat
  BY <1>i DEF PTypeOK, Once
<1>f. IsFiniteSet(Gone)
  <2>1. Gone \in SUBSET Copies
    BY <1>i DEF PTypes, Gone
  <2> QED
    BY <2>1, ProbeAssumption, FS_Subset
<1>1. CASE Start \/ Boot \/ UNCHANGED pvars
  <2>1. (UNCHANGED <<copy, present, cut>> /\ {pc, pc'} \cap {"createCopy"} = {}) \/ UNCHANGED pvars
    BY <1>1 DEF Start, Boot, files
  <2> QED
    BY <1>i, <2>1 DEF pvars, files, Gone, GoneByStops
<1>2. CASE Stop
  <2>1. Gone' = Gone /\ pc' = "idle"
    BY <1>2 DEF Stop, files, Gone
  <2>2. cut'["createCopy"] = IF pc = "createCopy" THEN cut["createCopy"] + 1 ELSE cut["createCopy"]
    BY <1>2, <1>i, StopsCount DEF Once
  <2> QED
    BY <1>i, <1>n, <2>1, <2>2 DEF GoneByStops
<1>3. CASE AwayFromCopies
  <2>1. Gone' = Gone /\ UNCHANGED cut /\ pc # "createCopy" /\ pc' # "createCopy"
    BY <1>3, CopiesAlone DEF Gone
  <2> QED
    BY <1>i, <2>1 DEF GoneByStops
<1>4. CASE UnlinkCopy
  <2>1. PICK c \in Destinations : copy' = [copy EXCEPT ![c] = Absent]
    BY <1>4 DEF UnlinkCopy, UnlinkOne
  <2>2. c \in present.copy /\ c \notin Gone
    BY <1>i, <2>1 DEF Destinations, Gone, PTypeOK
  <2>3. Gone' = Gone \union {c}
    BY <1>4, <1>i, <2>1, <2>2 DEF UnlinkCopy, UnlinkOne, Goto, Gone, PTypes
  <2>4. Cardinality(Gone \union {c}) = Cardinality(Gone) + 1
    BY <1>f, <2>2, FS_AddElement
  <2>5. cut' = cut /\ pc = "sync" /\ pc' = "createCopy"
    BY <1>4 DEF UnlinkCopy, UnlinkOne, Goto
  <2> QED
    BY <1>i, <1>n, <2>3, <2>4, <2>5 DEF GoneByStops
<1>5. CASE CreateCopy
  <2>1. pc = "createCopy" /\ pc' = "fillCopy" /\ cut' = cut /\ present' = present
    BY <1>5 DEF CreateCopy, Step, Goto
  <2>2. PICK c \in present.copy : destination = {c} /\ copy[c] = Absent
    BY <1>i, <2>1 DEF CopyInHand
  <2>3. \A d \in Copies : copy'[d] = IF d = c THEN Torn ELSE copy[d]
    BY <1>5, <2>2 DEF CreateCopy
  <2>4. c \in Gone /\ Gone' = Gone \ {c}
    BY <1>i, <2>1, <2>2, <2>3, MenusAre DEF Gone, PTypes
  <2>5. Cardinality(Gone \ {c}) = Cardinality(Gone) - 1
    BY <1>f, <2>4, FS_RemoveElement
  <2> QED
    BY <1>i, <1>n, <2>1, <2>4, <2>5 DEF GoneByStops
<1>6. CASE FillCopy
  <2>1. pc = "fillCopy" /\ pc' = "sync" /\ cut' = cut /\ present' = present
    BY <1>6 DEF FillCopy, FillAnd, Goto
  <2>2. PICK c \in present.copy : destination = {c} /\ copy[c] = Torn
    BY <1>i, <2>1 DEF CopyInHand
  <2>3. \A d \in Copies : copy'[d] = IF d = c THEN limine ELSE copy[d]
    BY <1>6, <2>2 DEF FillCopy, FillAnd
  <2>4. limine # Absent
    BY <1>i, MenusAre DEF PTypeOK
  <2>5. Gone' = Gone
    BY <1>i, <2>1, <2>2, <2>3, <2>4, MenusAre DEF Gone, PTypes
  <2> QED
    BY <1>i, <2>1, <2>5 DEF GoneByStops
<1> QED
  BY <1>1, <1>2, <1>3, <1>4, <1>5, <1>6 DEF PNext, AwayFromCopies

LEMMA NextCopies == PInv /\ [PNext]_pvars => CopiesMade'
<1> SUFFICES ASSUME PInv, [PNext]_pvars PROVE CopiesMade'
  OBVIOUS
<1>i. PTypes /\ PTypeOK /\ CopiesMade /\ CopyInHand
  BY DEF PInv, PTypes
<1> USE DEF BeforeInstall, Installing, Adding, Syncing, Finished, CopiesMade
<1>1. CASE Start \/ Stop
  BY <1>1, <1>i DEF Start, Stop, files
<1>9. CASE Boot \/ UNCHANGED pvars
  BY <1>9, <1>i DEF Boot, pvars, files, loop, Gone
<1>2. CASE BackupLimine \/ FillLimine \/ BackupDropin \/ FillBackup \/ OpenDropin \/ FillDropin
  BY <1>2, <1>i DEF BackupLimine, FillLimine, BackupDropin, FillBackup, OpenDropin, FillDropin,
     Step, Goto, loop
<1>3. CASE InstallKernel \/ InstallHeaders \/ Installed \/ RemoveEntries \/ AddMode0 \/ AddMode1
  BY <1>3, <1>i DEF InstallKernel, InstallHeaders, Installed, RemoveEntries, AddMode0, AddMode1,
     AddEntry, Step, Goto, files, loop
<1>4. CASE CheckEntries
  BY <1>4, <1>i DEF CheckEntries, Step, Goto, files, loop
<1>5. CASE UnlinkCopy
  <2>1. PICK c \in Destinations : copy' = [copy EXCEPT ![c] = Absent]
    BY <1>5 DEF UnlinkCopy, UnlinkOne
  <2>2. \A d \in synced : copy'[d] = copy[d]
    BY <1>i, <2>1 DEF Destinations, PTypes
  <2> QED
    BY <1>5, <1>i, <2>2 DEF UnlinkCopy, UnlinkOne, Goto
<1>6. CASE CreateCopy \/ FillCopy
  <2>1. PICK c \in present.copy \ synced : destination = {c}
    BY <1>6, <1>i DEF CreateCopy, FillCopy, FillAnd, Step, Goto, CopyInHand
  <2>2. \A d \in synced : copy'[d] = copy[d]
    BY <1>6, <1>i, <2>1 DEF CreateCopy, FillCopy, FillAnd, PTypes
  <2>3. CASE CreateCopy
    BY <1>i, <2>2, <2>3 DEF CreateCopy, Step, Goto, loop
  <2>4. CASE FillCopy
    <3>1. copy'[c] = limine
      BY <1>i, <2>1, <2>4 DEF FillCopy, FillAnd, PTypes
    <3> QED
      BY <1>i, <2>1, <2>2, <2>4, <3>1 DEF FillCopy, FillAnd, Goto
  <2> QED
    BY <1>6, <2>3, <2>4
<1>7. CASE Synced
  <2>1. present.copy \ Gone \subseteq synced
    BY <1>7, <1>i DEF Synced, Destinations, Gone, PTypes
  <2> QED
    BY <1>7, <1>i, <2>1 DEF Synced, Step, Goto, files, loop, Gone
<1>8. CASE OpenManifest \/ FillManifest \/ Pass
  BY <1>8, <1>i DEF OpenManifest, FillManifest, Pass, Step, Goto, loop, Gone
<1> QED
  BY <1>1, <1>9, <1>2, <1>3, <1>4, <1>5, <1>6, <1>7, <1>8 DEF PNext

(* An entry in a menu is one that was there, or one that is made now.      *)
LEMMA NextEntries == PInv /\ [PNext]_pvars => EntriesBoot'
<1> SUFFICES ASSUME PInv, [PNext]_pvars PROVE EntriesBoot'
  OBVIOUS
<1>i. PTypes /\ PTypeOK /\ EntriesBoot /\ DropinFirst
  BY DEF PInv, PTypes
<1>l. limine \in Menus
  BY <1>i, MenusAre DEF Menus, PTypeOK
<1>1. ASSUME limine' = limine, copy' = copy, packages' = packages PROVE EntriesBoot'
  BY <1>1, <1>i DEF EntriesBoot, Menus
<1>2. ASSUME packages \subseteq packages', Menus' \subseteq Menus \union {limine'},
             \A e \in Entries : limine'[e] = "none" \/ (limine'[e] = "own" /\ "kernel" \in packages')
                                \/ limine'[e] = limine[e]
      PROVE  EntriesBoot'
  BY <1>2, <1>i, <1>l DEF EntriesBoot
<1>3. ASSUME copy' = copy PROVE Menus' \subseteq Menus \union {limine'}
  BY <1>3 DEF Menus
<1>4. CASE Start \/ Stop \/ Boot \/ UNCHANGED pvars
  BY <1>4, <1>1 DEF Start, Stop, Boot, pvars, files
<1>5. CASE BackupLimine \/ FillLimine \/ BackupDropin \/ FillBackup \/ OpenDropin \/ FillDropin
  BY <1>5, <1>1 DEF BackupLimine, FillLimine, BackupDropin, FillBackup, OpenDropin, FillDropin
<1>6. CASE Installed \/ CheckEntries \/ Synced \/ OpenManifest \/ FillManifest \/ Pass
  BY <1>6, <1>1 DEF Installed, CheckEntries, Synced, OpenManifest, FillManifest, Pass, files
<1>7. CASE InstallKernel
  <2>1. dropin = "ours"
    BY <1>7, <1>i DEF InstallKernel, Step, Goto, DropinFirst, Installing
  <2>2. /\ packages' = packages \union {"kernel"} /\ copy' = copy
        /\ limine' = [limine EXCEPT !["kernel"] = "own"]
    BY <1>7, <2>1 DEF InstallKernel, FromDropin
  <2>3. \A e \in Entries : limine'[e] = IF e = "kernel" THEN "own" ELSE limine[e]
    BY <1>i, <2>2 DEF PTypeOK, Menu
  <2> QED
    BY <1>2, <1>3, <2>2, <2>3
<1>8. CASE InstallHeaders
  <2>1. limine' = limine /\ copy' = copy /\ packages \subseteq packages'
    BY <1>8 DEF InstallHeaders
  <2> QED
    BY <1>2, <1>3, <2>1
<1>9. CASE RemoveEntries
  <2>1. \A e \in Entries : limine'[e] = "none" \/ limine'[e] = limine[e]
    BY <1>9 DEF RemoveEntries
  <2>2. copy' = copy /\ packages' = packages
    BY <1>9 DEF RemoveEntries
  <2> QED
    BY <1>2, <1>3, <2>1, <2>2
<1>10. CASE AddMode0 \/ AddMode1
  <2>1. dropin = "ours" /\ packages = {"kernel", "headers"}
    BY <1>10, <1>i DEF AddMode0, AddMode1, AddEntry, Step, Goto, DropinFirst, Installing, Adding
  <2>2. PICK f \in Entries : limine' = [limine EXCEPT ![f] = "own"]
    BY <1>10, <2>1 DEF AddMode0, AddMode1, AddEntry, FromDropin, Entries
  <2>3. \A e \in Entries : limine'[e] = IF e = f THEN "own" ELSE limine[e]
    BY <1>i, <2>2 DEF PTypeOK, Menu
  <2>4. copy' = copy /\ packages' = packages
    BY <1>10 DEF AddMode0, AddMode1, AddEntry
  <2> QED
    BY <1>2, <1>3, <2>1, <2>3, <2>4
<1>11. CASE UnlinkCopy \/ CreateCopy \/ FillCopy
  <2>1. limine' = limine /\ packages' = packages
    BY <1>11 DEF UnlinkCopy, UnlinkOne, CreateCopy, FillCopy, FillAnd
  <2>2. \A c \in Copies : copy'[c] \in {Absent, Torn, limine, copy[c]}
    <3>1. CASE UnlinkCopy
      BY <1>i, <3>1 DEF UnlinkCopy, UnlinkOne, Destinations, PTypes
    <3>2. CASE CreateCopy \/ FillCopy
      BY <3>2 DEF CreateCopy, FillCopy, FillAnd
    <3> QED
      BY <1>11, <3>1, <3>2
  <2>3. Menus' \subseteq Menus \union {limine'}
    BY <2>1, <2>2 DEF Menus
  <2> QED
    BY <1>2, <2>1, <2>3
<1> QED
  BY <1>4, <1>5, <1>6, <1>7, <1>8, <1>9, <1>10, <1>11 DEF PNext

(* What a reader may count on of an installation that ran, stopped and ran *)
(* again, with boots in between.                                           *)
LEMMA ProbeInvariant == PSpec => []PInv
<1>1. PInv /\ [PNext]_pvars => PInv'
  BY NextPTypes, NextSaved, NextMade, NextCopyInHand, NextGone, NextCopies, NextEntries DEF PInv
<1> QED
  BY <1>1, InitPInv, PTL DEF PSpec

(* Types, and: a copy of the boot menu is written only where one was, for  *)
(* any set of destinations and any number of runs.                         *)
THEOREM ProbeTypes == PSpec => []PTypeOK
<1>1. PInv => PTypeOK
  BY DEF PInv, PTypes
<1> QED
  BY <1>1, ProbeInvariant, PTL

(* The user's menu and drop-in are saved whole before they are touched, in *)
(* whichever run that is; only a run stopped within the cp -a that saves   *)
(* one of them can leave it unsaved.                                       *)
THEOREM NothingIsLost == PSpec => []NothingLost
<1>1. ASSUME PInv PROVE NothingLost
  <2>1. PTypeOK /\ SavedFirst
    BY <1>1 DEF PInv, PTypes
  <2>2. limine # NoEntries => limine_before = NoEntries \/ cut["fillLimine"] > 0
    BY <2>1 DEF SavedFirst, PTypeOK
  <2>3. present.dropin = "user" /\ dropin # "user" => dropin_before = "user" \/ cut["fillBackup"] > 0
    BY <2>1 DEF SavedFirst
  <2> QED
    BY <2>2, <2>3 DEF NothingLost
<1> QED
  BY <1>1, ProbeInvariant, PTL

(* Whatever menu the board finds, an entry in it boots an installed kernel *)
(* with the command line the entry is named for.                           *)
THEOREM WhatBoots == PSpec => []EntriesBoot
<1>1. PInv => EntriesBoot
  BY DEF PInv
<1> QED
  BY <1>1, ProbeInvariant, PTL

(* The PASS line means a complete installation, in every copy that is      *)
(* left, and as many copies are gone as runs were stopped where none was.  *)
THEOREM PassIsComplete == PSpec => []PassMeansInstalled
<1>1. ASSUME PInv, pc = "pass" PROVE PassMeansInstalled
  <2>1. /\ PTypes /\ DropinFirst /\ EntriesMade /\ CopiesMade /\ GoneByStops /\ RecordsMade
        /\ cut["createCopy"] \in Nat
    BY <1>1 DEF PInv, PTypes, PTypeOK, Once
  <2>2. Cardinality(Gone) = cut["createCopy"]
    BY <1>1, <2>1 DEF GoneByStops
  <2>3. \A c \in present.copy \ Gone : copy[c] = limine
    BY <1>1, <2>1 DEF CopiesMade, Syncing, Finished
  <2> QED
    BY <1>1, <2>1, <2>2, <2>3 DEF DropinFirst, EntriesMade, RecordsMade, PassMeansInstalled,
       Installing, Adding, Syncing, Finished
<1>2. PInv => PassMeansInstalled
  BY <1>1 DEF PassMeansInstalled
<1> QED
  BY <1>2, ProbeInvariant, PTL

=============================================================================
