--------------------------- MODULE MemTest_proofs ---------------------------
(***************************************************************************)
(* Memory protection, for every set of registers and regions and every     *)
(* width of a register; the page tables of RvVme beneath it, in a program  *)
(* that maps as it likes and in the tests; and the tests on both, which    *)
(* find everything they look for.                                          *)
(***************************************************************************)
EXTENDS MemTest, RvVme_proofs, FiniteSetTheorems, WellFoundedInduction

-----------------------------------------------------------------------------
(* Induction over sets of numbers, which the library's theorems state with *)
(* operators, from the well-foundedness of finite sets.                    *)

LEMMA Induction ==
  ASSUME NEW T, 0 \in T, \A n \in Nat : n \in T => n + 1 \in T
  PROVE  Nat \subseteq T
  <1> SUFFICES ASSUME NEW m \in Nat, m \notin T
               PROVE  FALSE
    OBVIOUS
  <1> DEFINE U == {0..n : n \in Nat \ T}
             R == StrictSubsetOrdering(Nat)
  <1>1. U \subseteq FiniteSubsetsOf(Nat)
    <2> SUFFICES ASSUME NEW n \in Nat
                 PROVE  0..n \in FiniteSubsetsOf(Nat)
      OBVIOUS
    <2>1. IsFiniteSet(0..n)
      BY FS_Interval
    <2> QED
      BY <2>1 DEF FiniteSubsetsOf
  <1>2. U # {}
    OBVIOUS
  <1>3. IsWellFoundedOn(R, FiniteSubsetsOf(Nat))
    BY FS_StrictSubsetOrderingWellFounded
  <1> HIDE DEF U, R
  <1>4. PICK I \in U : \A J \in U : ~(<<J, I>> \in R)
    BY <1>1, <1>2, <1>3, WFMin
  <1>5. PICK n \in Nat \ T : I = 0..n
    BY DEF U
  <1>6. n # 0 /\ n - 1 \in Nat /\ n - 1 \notin T
    OBVIOUS
  <1>7. 0..(n - 1) \in U
    BY <1>6 DEF U
  <1>8. 0..(n - 1) \subseteq 0..n /\ 0..(n - 1) # 0..n /\ 0..n \subseteq Nat
    <2>1. n \in 0..n /\ n \notin 0..(n - 1)
      OBVIOUS
    <2> QED
      BY <2>1
  <1>9. <<0..(n - 1), 0..n>> \in R
    BY <1>8 DEF R, StrictSubsetOrdering
  <1> QED
    BY <1>4, <1>5, <1>7, <1>9

\* A non-empty set of registers has a lowest one.
LEMMA LowestIsLeast ==
  ASSUME NEW S, S \subseteq Nat, S # {}
  PROVE  Lowest(S) \in S /\ \A e \in S : Lowest(S) <= e
  <1>1. \E r \in S : \A e \in S : r <= e
    <2> SUFFICES ASSUME ~\E r \in S : \A e \in S : r <= e
                 PROVE  FALSE
      OBVIOUS
    <2> DEFINE B == {n \in Nat : \A e \in S : n <= e}
    <2>1. 0 \in B
      OBVIOUS
    <2>2. \A n \in Nat : n \in B => n + 1 \in B
      OBVIOUS
    <2> HIDE DEF B
    <2>3. Nat \subseteq B
      BY <2>1, <2>2, Induction
    <2>4. PICK e \in S : TRUE
      OBVIOUS
    <2>5. e + 1 \in B
      BY <2>3, <2>4
    <2> QED
      BY <2>4, <2>5 DEF B
  <1> QED
    BY <1>1 DEF Lowest

-----------------------------------------------------------------------------
(* Powers of two.                                                          *)

\* What the recursive definition computes, up to an exponent.
Doubles(f, n) == /\ f = [k \in 0..n |-> IF k = 0 THEN 1 ELSE 2 * f[k - 1]]

LEMMA DoublesExists ==
  ASSUME NEW n \in Nat
  PROVE  \E f : Doubles(f, n)
  <1> DEFINE T == {m \in Nat : \E f : Doubles(f, m)}
  <1>1. 0 \in T
    <2>1. Doubles([k \in 0..0 |-> 1], 0)
      BY DEF Doubles
    <2> QED
      BY <2>1
  <1>2. ASSUME NEW m \in Nat, m \in T
        PROVE  m + 1 \in T
    <2>1. PICK f : Doubles(f, m)
      BY <1>2
    <2> DEFINE g == [k \in 0..(m + 1) |-> IF k <= m THEN f[k] ELSE 2 * f[m]]
    <2>2. ASSUME NEW k \in 0..(m + 1)
          PROVE  g[k] = IF k = 0 THEN 1 ELSE 2 * g[k - 1]
      BY <2>1 DEF Doubles
    <2>3. g = [k \in 0..(m + 1) |-> g[k]]
      OBVIOUS
    <2> HIDE DEF g
    <2>4. Doubles(g, m + 1)
      BY <2>2, <2>3 DEF Doubles
    <2> QED
      BY <2>4
  <1> HIDE DEF T
  <1>3. Nat \subseteq T
    BY <1>1, <1>2, Induction
  <1> QED
    BY <1>3 DEF T

LEMMA PowSteps ==
  /\ Pow2[0] = 1
  /\ \A k \in 1..Width : Pow2[k] = 2 * Pow2[k - 1]
  <1>1. Pow2 = CHOOSE f : Doubles(f, Width)
    BY DEF Pow2, Doubles
  <1>2. Doubles(Pow2, Width)
    BY <1>1, DoublesExists, PmpAssumption
  <1> QED
    BY <1>2, PmpAssumption DEF Doubles

LEMMA PowType == \A k \in 0..Width : Pow2[k] \in Nat \ {0}
  <1> DEFINE T == {k \in Nat : k <= Width => Pow2[k] \in Nat \ {0}}
  <1>1. 0 \in T
    BY PowSteps
  <1>2. ASSUME NEW k \in Nat, k \in T
        PROVE  k + 1 \in T
    <2> SUFFICES ASSUME k + 1 <= Width
                 PROVE  Pow2[k + 1] \in Nat \ {0}
      OBVIOUS
    <2>1. Pow2[k + 1] = 2 * Pow2[k]
      BY PowSteps, PmpAssumption
    <2>2. Pow2[k] \in Nat \ {0}
      BY <1>2, PmpAssumption
    <2> QED
      BY <2>1, <2>2
  <1> HIDE DEF T
  <1>3. Nat \subseteq T
    BY <1>1, <1>2, Induction
  <1> QED
    BY <1>3, PmpAssumption DEF T

\* A power of two divides every larger one.
LEMMA PowDivides ==
  ASSUME NEW j \in 0..Width, NEW l \in 0..Width, j <= l
  PROVE  \E d \in Nat \ {0} : Pow2[l] = d * Pow2[j]
  <1> DEFINE T == {n \in Nat : j + n <= Width => \E d \in Nat \ {0} : Pow2[j + n] = d * Pow2[j]}
  <1>1. 0 \in T
    <2>1. Pow2[j + 0] = 1 * Pow2[j]
      BY PowType
    <2> QED
      BY <2>1
  <1>2. ASSUME NEW n \in Nat, n \in T
        PROVE  n + 1 \in T
    <2> SUFFICES ASSUME j + (n + 1) <= Width
                 PROVE  \E d \in Nat \ {0} : Pow2[j + (n + 1)] = d * Pow2[j]
      OBVIOUS
    <2>1. PICK d \in Nat \ {0} : Pow2[j + n] = d * Pow2[j]
      BY <1>2, PmpAssumption
    <2>2. Pow2[j + (n + 1)] = 2 * Pow2[j + n]
      BY PowSteps, PmpAssumption
    <2>3. 2 * d \in Nat \ {0} /\ Pow2[j + (n + 1)] = (2 * d) * Pow2[j]
      BY <2>1, <2>2, PowType
    <2> QED
      BY <2>3
  <1> HIDE DEF T
  <1>3. Nat \subseteq T
    BY <1>1, <1>2, Induction
  <1>4. l - j \in T /\ j + (l - j) = l
    BY <1>3
  <1> QED
    BY <1>4, PmpAssumption DEF T

LEMMA SmallerDivides ==
  ASSUME NEW n \in PowersOf2, NEW m \in PowersOf2, n < m
  PROVE  \E d \in Nat \ {0} : m = d * (2 * n)
  <1>1. PICK j \in 0..(Width - 1) : n = Pow2[j]
    BY DEF PowersOf2
  <1>2. PICK l \in 0..(Width - 1) : m = Pow2[l]
    BY DEF PowersOf2
  <1>3. n \in Nat \ {0} /\ m \in Nat \ {0}
    BY <1>1, <1>2, PowType, PmpAssumption
  <1>4. j < l
    <2> SUFFICES ASSUME l <= j
                 PROVE  FALSE
      BY <1>1, <1>2, PmpAssumption
    <2>1. PICK d \in Nat \ {0} : n = d * m
      BY <1>1, <1>2, PowDivides, PmpAssumption
    <2> QED
      BY <1>3, <2>1
  <1>5. Pow2[j + 1] = 2 * n
    BY <1>1, PowSteps, PmpAssumption
  <1>6. \E d \in Nat \ {0} : Pow2[l] = d * Pow2[j + 1]
    BY <1>1, <1>2, <1>4, PowDivides, PmpAssumption
  <1> QED
    BY <1>2, <1>5, <1>6

LEMMA PowersType ==
  /\ PowersOf2 \subseteq Nat \ {0}
  /\ \A n \in PowersOf2 : n = 1 \/ \E h \in PowersOf2 : n = 2 * h
  <1>1. PowersOf2 \subseteq Nat \ {0}
    BY PowType, PmpAssumption DEF PowersOf2
  <1>2. ASSUME NEW n \in PowersOf2, n # 1
        PROVE  \E h \in PowersOf2 : n = 2 * h
    <2>1. PICK k \in 0..(Width - 1) : n = Pow2[k]
      BY DEF PowersOf2
    <2>2. k # 0
      BY <1>2, <2>1, PowSteps
    <2>3. n = 2 * Pow2[k - 1] /\ k - 1 \in 0..(Width - 1)
      BY <2>1, <2>2, PowSteps, PmpAssumption
    <2> QED
      BY <2>3 DEF PowersOf2
  <1> QED
    BY <1>1, <1>2

\* At most one size reads as a given NAPOT address.
LEMMA NapotUnique ==
  ASSUME NEW a \in Nat, NEW n \in PowersOf2, NEW m \in PowersOf2,
         a % (2 * n) = n - 1, a % (2 * m) = m - 1
  PROVE  n = m
  <1>1. ASSUME NEW x \in PowersOf2, NEW y \in PowersOf2, x < y,
               a % (2 * x) = x - 1, a % (2 * y) = y - 1
        PROVE  FALSE
    <2>1. x \in Nat \ {0} /\ y \in Nat \ {0}
      BY PowersType
    <2>2. PICK d \in Nat \ {0} : y = d * (2 * x)
      BY <1>1, SmallerDivides
    <2> DEFINE c == a \div (2 * y)
               e == 2 * (c * d) + (d - 1)
    <2>3. c \in Nat /\ a = (2 * y) * c + (y - 1)
      BY <1>1, <2>1
    <2>4. e \in Nat /\ a = e * (2 * x) + (2 * x - 1)
      <3>1. e \in Nat
        BY <2>2, <2>3
      <3>2. (2 * y) * c = (2 * (c * d)) * (2 * x)
        <4> HIDE DEF c
        <4>1. \A i, j, k \in Nat : (2 * (i * (2 * j))) * k = (2 * (k * i)) * (2 * j)
          OBVIOUS
        <4> QED
          BY <2>1, <2>2, <2>3, <4>1
      <3>3. y = (d - 1) * (2 * x) + 2 * x
        BY <2>1, <2>2
      <3> QED
        BY <2>1, <2>2, <2>3, <3>1, <3>2, <3>3
    <2> HIDE DEF c, e
    <2>5. a % (2 * x) = 2 * x - 1
      BY <2>1, <2>4, SMTT(20)
    <2> QED
      BY <1>1, <2>1, <2>5
  <1>2. n \in Nat /\ m \in Nat
    BY PowersType
  <1> QED
    BY <1>1, <1>2

\* The address that enable_pmp writes stands for the region it was given.
LEMMA NapotMeans ==
  ASSUME NEW b \in Nat, NEW s \in PowersOf2, s # 1, b % s = 0, b + s <= AllOnes
  PROVE  LET a == b + (s \div 2 - 1)
         IN  /\ a \in 0..(AllOnes - 1)
             /\ NapotSize(a) = s
             /\ \A w \in Nat : w \div s = a \div s <=> b <= w /\ w < b + s
  <1> DEFINE a == b + (s \div 2 - 1)
  <1>1. PICK h \in PowersOf2 : s = 2 * h
    BY PowersType
  <1>2. h \in Nat \ {0} /\ s \in Nat \ {0}
    BY PowersType
  <1>3. s \div 2 = h /\ a = b + (h - 1)
    BY <1>1, <1>2
  <1>4. AllOnes \in Nat
    BY PowType, PmpAssumption DEF AllOnes
  <1>5. PICK c \in Nat : b = c * s
    <2>1. b = s * (b \div s) + (b % s) /\ b \div s \in Nat
      BY <1>2
    <2>2. \A q \in Nat : s * q + 0 = q * s
      BY <1>2
    <2> QED
      BY <2>1, <2>2
  <1>6. a % (2 * h) = h - 1
    BY <1>1, <1>2, <1>3, <1>5
  <1>7. NapotSize(a) = s
    <2>1. \A n \in PowersOf2 : a % (2 * n) = n - 1 => n = h
      <3>1. a \in Nat
        BY <1>2, <1>3
      <3> HIDE DEF a
      <3> QED
        BY <1>6, <3>1, NapotUnique
    <2>2. (CHOOSE n \in PowersOf2 : a % (2 * n) = n - 1) = h
      BY <1>6, <2>1
    <2> QED
      BY <1>1, <2>2 DEF NapotSize
  <1>8. a \div s = c
    BY <1>1, <1>2, <1>3, <1>5
  <1>9. ASSUME NEW w \in Nat
        PROVE  w \div s = c <=> b <= w /\ w < b + s
    <2>1. w = s * (w \div s) + (w % s) /\ w % s \in 0..(s - 1) /\ w \div s \in Nat
      BY <1>2
    <2>2. w \div s = c => b <= w /\ w < b + s
      BY <1>2, <1>5, <2>1
    <2>3. ASSUME b <= w, w < b + s
          PROVE  w \div s = c
      <3>1. PICK r \in 0..(s - 1) : w = c * s + r
        <4>1. w - b \in 0..(s - 1) /\ w = b + (w - b)
          BY <1>2, <2>3
        <4> QED
          BY <1>5, <4>1
      <3> QED
        BY <1>2, <3>1
    <2> QED
      BY <2>2, <2>3
  <1>10. a \in 0..(AllOnes - 1)
    BY <1>1, <1>2, <1>3, <1>4
  <1> QED
    BY <1>7, <1>8, <1>9, <1>10

-----------------------------------------------------------------------------
(* The driver: what a register that has been asked for holds.              *)

Last     == PMP_COUNT - 1
Asked    == [tor : BOOLEAN, addr : Nat, size : Nat \ {0}, perm : SUBSET Perm]
Valid(q) == /\ q \in [addr : Nat, size : Nat \ {0}, perm : SUBSET Perm]
            /\ q.addr + q.size <= AllOnes

PmpTypeOK == /\ addr \in [Reg -> 0..AllOnes]
             /\ cfg \in [Byte -> SUBSET (Perm \cup Mode)]
             /\ asked \in [Reg -> Asked \cup {NoRequest}]
             /\ booted \in BOOLEAN

\* A TOR region begins in the register below, which nothing else uses.
TorHolds(r) ==
  /\ Cfg(r) = asked[r].perm \cup {"A0"}
  /\ addr[r] = asked[r].addr + asked[r].size
  /\ IF r > 0 THEN addr[r - 1] = asked[r].addr /\ asked[r - 1] = NoRequest
              ELSE asked[r].addr = 0

NapotHolds(r) ==
  /\ asked[r].size \in PowersOf2 /\ asked[r].addr % asked[r].size = 0
  /\ Cfg(r) = asked[r].perm \cup (IF asked[r].size = 1 THEN {"A1"} ELSE Mode)
  /\ addr[r] = IF asked[r].size = 1 THEN asked[r].addr
               ELSE asked[r].addr + (asked[r].size \div 2 - 1)

Holds(r) == IF asked[r] = NoRequest THEN Cfg(r) = {}
            ELSE /\ asked[r].addr + asked[r].size <= AllOnes
                 /\ IF asked[r].tor THEN TorHolds(r) ELSE NapotHolds(r)

\* The last register opens all of memory to what no other register covers.
PmpInv ==
  /\ PmpTypeOK
  /\ ~booted => \A r \in Reg : asked[r] = NoRequest /\ Cfg(r) = {}
  /\ booted => /\ asked[Last] = NoRequest /\ addr[Last] = AllOnes
               /\ Cfg(Last) = Perm \cup Mode
               /\ \A r \in Reg \ {Last} : Holds(r)

\* Steps of the driver but for disable_pmp.
Enables == InitPmp \/ \E r \in Reg \ {Last} : \E q : Valid(q) /\ (EnablePmp(r, q) \/ EnablePmpTOR(r, q))

\* Every register has a byte of its own.
LEMMA Bytes ==
  /\ \A r \in Reg : CfgByte(r) \in Byte /\ Cfg(r) = cfg[CfgByte(r)] /\ Cfg(r)' = cfg'[CfgByte(r)]
  /\ \A r, e \in Reg : CfgByte(r) = CfgByte(e) => r = e
  /\ CfgByte(Last) = <<2, 7>>
  <1> USE DEF Reg, PMP_COUNT, Last
  <1>1. ASSUME NEW r \in Reg
        PROVE  /\ CfgByte(r) \in Byte
               /\ <<2 * (r \div 8), r % 8>> = CfgByte(r)
    <2>1. CASE r > 7
      <3>1. r \div 8 = 1 /\ r % 8 \in 0..7
        BY <2>1
      <3> QED
        BY <2>1, <3>1 DEF CfgByte, Byte
    <2>2. CASE r <= 7
      <3>1. r \div 8 = 0 /\ r % 8 \in 0..7
        BY <2>2
      <3> QED
        BY <2>2, <3>1 DEF CfgByte, Byte
    <2> QED
      BY <2>1, <2>2
  <1>2. ASSUME NEW r \in Reg, NEW e \in Reg, CfgByte(r) = CfgByte(e)
        PROVE  r = e
    BY <1>2 DEF CfgByte
  <1>3. CfgByte(Last) = <<2, 7>>
    BY DEF CfgByte
  <1> QED
    BY <1>1, <1>2, <1>3 DEF Cfg

LEMMA AllOnesType == AllOnes \in Nat
  BY PowType, PmpAssumption DEF AllOnes

LEMMA InitPmpInv == PmpInit => PmpInv
  <1> SUFFICES ASSUME PmpInit
               PROVE  PmpInv
    OBVIOUS
  <1>1. PmpTypeOK
    <2>1. addr \in [Reg -> 0..AllOnes]
      BY AllOnesType DEF PmpInit
    <2>2. cfg \in [Byte -> SUBSET (Perm \cup Mode)] /\ booted \in BOOLEAN
      BY DEF PmpInit
    <2>3. asked \in [Reg -> Asked \cup {NoRequest}]
      BY DEF PmpInit
    <2> QED
      BY <2>1, <2>2, <2>3 DEF PmpTypeOK
  <1>2. \A r \in Reg : asked[r] = NoRequest /\ Cfg(r) = {}
    BY Bytes DEF PmpInit
  <1> QED
    BY <1>1, <1>2 DEF PmpInit, PmpInv

\* What both calls do to the configuration: the bits of register r are exactly the new
\* ones, since it had none.
LEMMA SetCfgFresh ==
  ASSUME PmpInv, booted, NEW r \in Reg \ {Last}, asked[r] = NoRequest,
         NEW bits \in SUBSET (Perm \cup Mode), SetCfg(r, bits)
  PROVE  /\ cfg' \in [Byte -> SUBSET (Perm \cup Mode)]
         /\ Cfg(r)' = bits
         /\ \A e \in Reg \ {r} : Cfg(e)' = Cfg(e)
  <1>1. Cfg(r) = {}
    BY DEF PmpInv, Holds
  <1> HIDE DEF CfgByte
  <1>2. cfg' = [cfg EXCEPT ![CfgByte(r)] = bits]
    <2>1. cfg[CfgByte(r)] = {}
      BY <1>1, Bytes
    <2>2. cfg' = [cfg EXCEPT ![CfgByte(r)] = cfg[CfgByte(r)] \cup bits]
      BY DEF SetCfg
    <2> QED
      BY <2>1, <2>2
  <1> QED
    BY <1>2, Bytes DEF PmpInv, PmpTypeOK

LEMMA AskedType ==
  ASSUME NEW t \in BOOLEAN, NEW a \in Nat, NEW s \in Nat \ {0}, NEW p \in SUBSET Perm
  PROVE  LET ask == [tor |-> t, addr |-> a, size |-> s, perm |-> p]
         IN  ask \in Asked /\ ask # NoRequest
  <1> DEFINE ask == [tor |-> t, addr |-> a, size |-> s, perm |-> p]
  <1>1. ask \in Asked
    BY DEF Asked
  <1>2. ask \in [tor : BOOLEAN, addr : Nat, size : Nat, perm : SUBSET Perm]
    OBVIOUS
  <1> HIDE DEF ask
  <1>3. ask # NoRequest
    BY <1>2, PmpAssumption
  <1> QED
    BY <1>1, <1>3 DEF ask

LEMMA EnablePmpInv ==
  ASSUME PmpInv, NEW r \in Reg \ {Last}, NEW q, Valid(q), EnablePmp(r, q)
  PROVE  PmpInv'
  <1> USE DEF EnablePmp
  <1> DEFINE ask  == [tor |-> FALSE, addr |-> q.addr, size |-> q.size, perm |-> q.perm]
             bits == q.perm \cup (IF q.size = 1 THEN {"A1"} ELSE Mode)
             a    == IF q.size = 1 THEN q.addr ELSE q.addr + (q.size \div 2 - 1)
  <1>1. ask \in Asked /\ ask # NoRequest
    BY AskedType DEF Valid
  <1>2. asked' = [asked EXCEPT ![r] = ask] /\ addr' = [addr EXCEPT ![r] = a] /\ UNCHANGED booted
    BY DEF Ask
  <1>3. a \in 0..AllOnes
    BY NapotMeans, AllOnesType DEF Valid
  <1>4. /\ cfg' \in [Byte -> SUBSET (Perm \cup Mode)] /\ Cfg(r)' = bits
        /\ \A e \in Reg \ {r} : Cfg(e)' = Cfg(e)
    <2>1. bits \in SUBSET (Perm \cup Mode)
      BY DEF Valid, Mode
    <2>2. SetCfg(r, bits) /\ asked[r] = NoRequest
      BY DEF Unused
    <2> QED
      BY <2>1, <2>2, SetCfgFresh
  <1>5. PmpTypeOK'
    BY <1>1, <1>2, <1>3, <1>4 DEF PmpInv, PmpTypeOK
  <1>6. Holds(r)'
    <2>1. asked'[r] = ask /\ addr'[r] = a
      BY <1>2 DEF PmpInv, PmpTypeOK
    <2>2. NapotHolds(r)'
      BY <1>4, <2>1 DEF NapotHolds
    <2> QED
      BY <1>1, <2>1, <2>2 DEF Holds, Valid
  <1>7. ASSUME NEW e \in Reg \ {r}, e # Last
        PROVE  Holds(e)'
    <2>1. Holds(e) /\ Cfg(e)' = Cfg(e) /\ asked'[e] = asked[e] /\ addr'[e] = addr[e]
      BY <1>2, <1>4, <1>7 DEF PmpInv, PmpTypeOK
    <2>2. asked[e] # NoRequest /\ asked[e].tor => e # r + 1
      BY DEF Unused
    <2>3. e > 0 /\ e # r + 1 => e - 1 \in Reg \ {r}
      BY DEF Reg, PMP_COUNT
    <2>4. ASSUME asked[e] # NoRequest, asked[e].tor
          PROVE  TorHolds(e)'
      <3>1. TorHolds(e)
        BY <2>1, <2>4 DEF Holds
      <3>2. e > 0 => asked'[e - 1] = asked[e - 1] /\ addr'[e - 1] = addr[e - 1]
        BY <1>2, <2>2, <2>3, <2>4 DEF PmpInv, PmpTypeOK
      <3> QED
        BY <2>1, <3>1, <3>2 DEF TorHolds
    <2> QED
      BY <2>1, <2>4 DEF Holds, NapotHolds
  <1> QED
    <2>1. Last \in Reg \ {r}
      BY DEF Last, Reg, PMP_COUNT
    <2> QED
      BY <1>2, <1>4, <1>5, <1>6, <1>7, <2>1 DEF PmpInv, PmpTypeOK

LEMMA EnablePmpTORInv ==
  ASSUME PmpInv, NEW r \in Reg \ {Last}, NEW q, Valid(q), EnablePmpTOR(r, q)
  PROVE  PmpInv'
  <1> USE DEF EnablePmpTOR
  <1> DEFINE ask  == [tor |-> TRUE, addr |-> q.addr, size |-> q.size, perm |-> q.perm]
             bits == q.perm \cup {"A0"}
  <1>1. ask \in Asked /\ ask # NoRequest
    BY AskedType DEF Valid
  <1>2. /\ asked' = [asked EXCEPT ![r] = ask] /\ UNCHANGED booted
        /\ addr' = [e \in Reg |-> IF e = r THEN q.addr + q.size
                                  ELSE IF e = r - 1 THEN q.addr ELSE addr[e]]
    BY DEF Ask
  <1>3. q.addr + q.size \in 0..AllOnes /\ q.addr \in 0..AllOnes
    BY AllOnesType DEF Valid
  <1>4. /\ cfg' \in [Byte -> SUBSET (Perm \cup Mode)] /\ Cfg(r)' = bits
        /\ \A e \in Reg \ {r} : Cfg(e)' = Cfg(e)
    <2>1. bits \in SUBSET (Perm \cup Mode)
      BY DEF Valid, Mode
    <2>2. SetCfg(r, bits) /\ asked[r] = NoRequest
      BY DEF Unused
    <2> QED
      BY <2>1, <2>2, SetCfgFresh
  <1>5. PmpTypeOK'
    <2>1. addr' \in [Reg -> 0..AllOnes]
      BY <1>2, <1>3 DEF PmpInv, PmpTypeOK
    <2> QED
      BY <1>1, <1>2, <1>4, <2>1 DEF PmpInv, PmpTypeOK
  <1>6. r > 0 => r - 1 \in Reg /\ r - 1 # r /\ asked[r - 1] = NoRequest
    BY DEF Unused, Reg, PMP_COUNT
  <1>7. Holds(r)'
    <2>1. asked'[r] = ask /\ addr'[r] = q.addr + q.size
      BY <1>2 DEF PmpInv, PmpTypeOK
    <2>2. r > 0 => asked'[r - 1] = NoRequest /\ addr'[r - 1] = q.addr
      BY <1>2, <1>6 DEF PmpInv, PmpTypeOK
    <2>3. ~(r > 0) => q.addr = 0
      OBVIOUS
    <2>4. TorHolds(r)'
      BY <1>4, <2>1, <2>2, <2>3 DEF TorHolds
    <2> QED
      BY <1>1, <2>1, <2>4 DEF Holds, Valid
  <1>8. ASSUME NEW e \in Reg \ {r}, e # Last
        PROVE  Holds(e)'
    <2>1. Holds(e) /\ Cfg(e)' = Cfg(e) /\ asked'[e] = asked[e]
      BY <1>2, <1>4, <1>8 DEF PmpInv, PmpTypeOK
    <2> SUFFICES ASSUME asked[e] # NoRequest
                 PROVE  Holds(e)'
      BY <2>1 DEF Holds
    <2>2. e # r - 1
      BY <1>6 DEF Reg, PMP_COUNT
    <2>3. addr'[e] = addr[e]
      BY <1>2, <2>2
    <2>4. ASSUME asked[e].tor
          PROVE  TorHolds(e)'
      <3>1. TorHolds(e)
        BY <2>1, <2>4 DEF Holds
      <3>2. e # r + 1
        BY <2>4 DEF Unused
      <3>3. e > 0 => e - 1 \in Reg /\ e - 1 # r /\ e - 1 # r - 1
        BY <3>2 DEF Reg, PMP_COUNT
      <3>4. e > 0 => asked'[e - 1] = asked[e - 1] /\ addr'[e - 1] = addr[e - 1]
        BY <1>2, <3>3 DEF PmpInv, PmpTypeOK
      <3> QED
        BY <2>1, <2>3, <3>1, <3>4 DEF TorHolds
    <2> QED
      BY <2>1, <2>3, <2>4 DEF Holds, NapotHolds
  <1> QED
    <2>1. Last \in Reg \ {r} /\ Last # r - 1
      BY DEF Last, Reg, PMP_COUNT
    <2>2. addr'[Last] = addr[Last]
      BY <1>2, <2>1
    <2> QED
      BY <1>2, <1>4, <1>5, <1>7, <1>8, <2>1, <2>2 DEF PmpInv, PmpTypeOK

LEMMA StepPmpInv == PmpInv /\ [Enables]_pmpvars => PmpInv'
  <1> SUFFICES ASSUME PmpInv, [Enables]_pmpvars
               PROVE  PmpInv'
    OBVIOUS
  <1>1. CASE InitPmp
    <2>1. \A r \in Reg : asked'[r] = NoRequest /\ Cfg(r) = {}
      BY <1>1 DEF InitPmp, PmpInv
    <2>2. \A r \in Reg : Cfg(r)' = IF r = Last THEN Perm \cup Mode ELSE {}
      <3>1. ASSUME NEW r \in Reg, CfgByte(r) # <<2, 7>>
            PROVE  cfg'[CfgByte(r)] = {}
        BY <1>1, <2>1, <3>1, Bytes DEF InitPmp
      <3>2. <<2, 7>> \in Byte => cfg'[<<2, 7>>] = Perm \cup Mode
        BY <1>1 DEF InitPmp
      <3>3. Last \in Reg
        BY DEF Last, Reg, PMP_COUNT
      <3> HIDE DEF CfgByte
      <3> QED
        BY <3>1, <3>2, <3>3, Bytes
    <2>3. cfg' \in [Byte -> SUBSET (Perm \cup Mode)]
      <3>1. \A b \in Byte : cfg'[b] \in SUBSET (Perm \cup Mode)
        BY <1>1 DEF InitPmp, PmpInv, PmpTypeOK
      <3> QED
        BY <1>1, <3>1 DEF InitPmp
    <2>4. addr' = [r \in Reg |-> AllOnes] /\ booted' = TRUE /\ asked' = asked
      BY <1>1 DEF InitPmp
    <2>5. PmpTypeOK'
      BY <2>3, <2>4, AllOnesType DEF PmpInv, PmpTypeOK
    <2>6. Last \in Reg
      BY DEF Last, Reg, PMP_COUNT
    <2> QED
      BY <2>1, <2>2, <2>4, <2>5, <2>6 DEF PmpInv, Holds
  <1>2. ASSUME NEW r \in Reg \ {Last}, NEW q, Valid(q), EnablePmp(r, q) \/ EnablePmpTOR(r, q)
        PROVE  PmpInv'
    BY <1>2, EnablePmpInv, EnablePmpTORInv
  <1>3. CASE UNCHANGED pmpvars
    <2>1. UNCHANGED <<addr, cfg, asked, booted>> /\ \A r : Cfg(r)' = Cfg(r)
      BY <1>3 DEF pmpvars, Cfg
    <2>2. \A r : Holds(r)' = Holds(r)
      BY <2>1 DEF Holds, TorHolds, NapotHolds
    <2> QED
      BY <2>1, <2>2 DEF PmpInv, PmpTypeOK
  <1> QED
    BY <1>1, <1>2, <1>3 DEF Enables

-----------------------------------------------------------------------------
(* The hardware: an entry covers what its call has asked for.              *)

Around(r, w) == asked[r] # NoRequest /\ asked[r].addr <= w /\ w < asked[r].addr + asked[r].size

LEMMA CoversAsked ==
  ASSUME PmpInv, booted, NEW r \in Reg \ {Last}, NEW w \in 0..AllOnes
  PROVE  Cfg(r) # {} /\ Covers(r, w) <=> Around(r, w)
  <1>0. w \in Nat /\ AllOnes \in Nat
    BY AllOnesType
  <1>1. Holds(r)
    BY DEF PmpInv
  <1>2. CASE asked[r] = NoRequest
    BY <1>1, <1>2 DEF Holds, Around
  <1>3. CASE asked[r] # NoRequest
    <2>1. asked[r] \in Asked
      BY <1>3 DEF PmpInv, PmpTypeOK
    <2> DEFINE a == asked[r].addr
               s == asked[r].size
    <2>2. a \in Nat /\ s \in Nat \ {0} /\ asked[r].perm \subseteq Perm /\ a + s <= AllOnes
      BY <1>1, <1>3, <2>1 DEF Asked, Holds
    <2>3. asked[r].perm \cap Mode = {}
      BY <2>2 DEF Perm, Mode
    <2>4. Around(r, w) <=> a <= w /\ w < a + s
      BY <1>3 DEF Around
    <2>5. CASE asked[r].tor
      <3>1. TorHolds(r)
        BY <1>1, <1>3, <2>5 DEF Holds
      <3>2. Cfg(r) \cap Mode = {"A0"} /\ Cfg(r) # {}
        BY <2>3, <3>1 DEF TorHolds, Mode
      <3>3. Covers(r, w) <=> (r > 0 => addr[r - 1] <= w) /\ w < addr[r]
        BY <3>2 DEF Covers, Mode
      <3>4. r > 0 \/ r = 0
        BY DEF Reg, PMP_COUNT
      <3> QED
        BY <1>0, <2>2, <2>4, <3>1, <3>2, <3>3, <3>4 DEF TorHolds
    <2>6. CASE ~asked[r].tor /\ s = 1
      <3>1. NapotHolds(r)
        BY <1>1, <1>3, <2>6 DEF Holds
      <3>2. Cfg(r) \cap Mode = {"A1"} /\ Cfg(r) # {}
        BY <2>3, <2>6, <3>1 DEF NapotHolds, Mode
      <3>3. Covers(r, w) <=> w = addr[r]
        BY <3>2 DEF Covers, Mode
      <3> QED
        BY <1>0, <2>2, <2>4, <2>6, <3>1, <3>2, <3>3 DEF NapotHolds
    <2>7. CASE ~asked[r].tor /\ s # 1
      <3>1. NapotHolds(r)
        BY <1>1, <1>3, <2>7 DEF Holds
      <3>2. Cfg(r) \cap Mode = Mode /\ Cfg(r) # {}
        BY <2>3, <2>7, <3>1 DEF NapotHolds, Mode
      <3> DEFINE e == a + (s \div 2 - 1)
      <3>3. addr[r] = e
        BY <2>7, <3>1 DEF NapotHolds
      <3>4. /\ e \in 0..(AllOnes - 1) /\ NapotSize(e) = s
            /\ w \div s = e \div s <=> a <= w /\ w < a + s
        BY <1>0, <2>2, <2>7, <3>1, NapotMeans DEF NapotHolds
      <3> HIDE DEF e, a, s
      <3>5. Covers(r, w) <=> (e # AllOnes => w \div NapotSize(e) = e \div NapotSize(e))
        BY <3>2, <3>3 DEF Covers, Mode
      <3>6. e # AllOnes
        BY <1>0, <3>4
      <3> QED
        BY <2>4, <3>2, <3>4, <3>5, <3>6
    <2> QED
      BY <2>5, <2>6, <2>7
  <1> QED
    BY <1>2, <1>3

LEMMA Enforces ==
  ASSUME PmpInv, booted, NEW w \in 0..AllOnes
  PROVE  Grants(w) = Wanted(w)
  <1> DEFINE H == {r \in Reg : Cfg(r) # {} /\ Covers(r, w)}
             A == {r \in Reg : Around(r, w)}
  <1>1. Last \in H /\ Last \notin A /\ Last \in Reg
    <2>1. Last \in Reg
      BY DEF Last, Reg, PMP_COUNT
    <2>2. Cfg(Last) = Perm \cup Mode /\ addr[Last] = AllOnes /\ asked[Last] = NoRequest
      BY DEF PmpInv
    <2>3. Covers(Last, w)
      BY <2>2 DEF Covers
    <2> QED
      BY <2>1, <2>2, <2>3 DEF Around, Perm
  <1>2. H = A \cup {Last}
    BY <1>1, CoversAsked
  <1>3. Grants(w) = Cfg(Lowest(H)) \cap Perm
    BY <1>1 DEF Grants
  <1>4. Wanted(w) = IF A = {} THEN Perm ELSE asked[Lowest(A)].perm
    BY DEF Wanted, Around
  <1>5. H \subseteq Nat /\ A \subseteq Nat /\ \A r \in Reg : r \in Nat /\ r <= Last
    BY DEF Reg, PMP_COUNT, Last
  <1>6. CASE A = {}
    <2>1. Lowest(H) = Last
      BY <1>1, <1>2, <1>5, <1>6, LowestIsLeast
    <2> QED
      BY <1>3, <1>4, <1>6, <2>1 DEF PmpInv, Perm, Mode
  <1>7. CASE A # {}
    <2> DEFINE r == Lowest(A)
               h == Lowest(H)
    <2>1. r \in A /\ \A e \in A : r <= e
      BY <1>5, <1>7, LowestIsLeast
    <2>2. h \in H /\ \A e \in H : h <= e
      BY <1>1, <1>5, LowestIsLeast
    <2> HIDE DEF r, h
    <2>3. h = r
      <3>1. h <= r /\ r \in Reg /\ h \in Reg
        BY <1>2, <2>1, <2>2
      <3>2. h # Last
        BY <1>1, <1>5, <2>1, <3>1
      <3>3. r <= h
        BY <1>2, <2>1, <2>2, <3>2
      <3> QED
        BY <1>5, <3>1, <3>3
    <2>4. asked[r] # NoRequest /\ r \in Reg \ {Last}
      BY <1>1, <2>1 DEF Around
    <2>5. Holds(r) /\ asked[r] \in Asked
      BY <2>4 DEF PmpInv, PmpTypeOK
    <2>6. asked[r].perm \subseteq Perm
      BY <2>5 DEF Asked
    <2>7. \E m \in SUBSET Mode : Cfg(r) = asked[r].perm \cup m
      BY <2>4, <2>5 DEF Holds, TorHolds, NapotHolds, Mode
    <2>8. Cfg(r) \cap Perm = asked[r].perm
      BY <2>6, <2>7 DEF Perm, Mode
    <2> QED
      BY <1>3, <1>4, <1>7, <2>3, <2>8 DEF r, h
  <1> QED
    BY <1>6, <1>7

-----------------------------------------------------------------------------
(* The programs of MemTest, which enable entries only.                     *)

LEMMA AllOnesValue == AllOnes = 1073741823
  <1>1. Width = 30
    BY MemAssumption
  <1>2. \A k \in 1..30 : Pow2[k] = 2 * Pow2[k - 1]
    BY <1>1, PowSteps
  <1>3. \A k \in 0..25 : Pow2[k + 5] = 32 * Pow2[k]
    <2> SUFFICES ASSUME NEW k \in 0..25
                 PROVE  Pow2[k + 5] = 32 * Pow2[k]
      OBVIOUS
    <2>1. Pow2[k + 1] = 2 * Pow2[k] /\ Pow2[k + 2] = 2 * Pow2[k + 1]
      BY <1>2
    <2>2. Pow2[k + 3] = 2 * Pow2[k + 2] /\ Pow2[k + 4] = 2 * Pow2[k + 3]
      BY <1>2
    <2>3. Pow2[k + 5] = 2 * Pow2[k + 4] /\ Pow2[k] \in Nat
      BY <1>1, <1>2, PowType
    <2> QED
      BY <2>1, <2>2, <2>3
  <1>4. Pow2[0] = 1 /\ Pow2[5] = 32
    BY <1>3, PowSteps
  <1>5. Pow2[10] = 1024 /\ Pow2[15] = 32768
    BY <1>3, <1>4
  <1>6. Pow2[20] = 1048576 /\ Pow2[25] = 33554432
    BY <1>3, <1>5
  <1>7. Pow2[30] = 1073741824
    BY <1>3, <1>6
  <1> QED
    BY <1>1, <1>7 DEF AllOnes

LEMMA BootCallsValid ==
  /\ Len(BootCalls) = 5
  /\ \A i \in 1..5 : BootCalls[i].reg \in Reg \ {Last} /\ Valid(BootCalls[i].q)
  <1>1. Len(BootCalls) = 5
    BY DEF BootCalls
  <1>2. \A r \in 1..9 : r \in Reg \ {Last}
    BY SMT DEF Reg, Last, PMP_COUNT
  <1>3. \A a \in Nat, s \in {\h4000, \h400}, p \in SUBSET Perm :
          a <= \h2c004000 => Valid([addr |-> a, size |-> s, perm |-> p])
    BY AllOnesValue, SMT DEF Valid
  <1>4. {} \in SUBSET Perm /\ {"R"} \in SUBSET Perm /\ {"W"} \in SUBSET Perm
    BY DEF Perm
  <1>5. BootCalls[1].reg \in Reg \ {Last} /\ Valid(BootCalls[1].q)
    <2>1. /\ BootCalls[1].reg = 1
          /\ BootCalls[1].q = [addr |-> \h24000000, size |-> \h4000, perm |-> {}]
      BY SMT DEF BootCalls, Call
    <2>2. Valid([addr |-> \h24000000, size |-> \h4000, perm |-> {}])
      BY <1>3, <1>4, SMT
    <2> QED
      BY <1>2, <2>1, <2>2, SMT
  <1>6. BootCalls[2].reg \in Reg \ {Last} /\ Valid(BootCalls[2].q)
    <2>1. /\ BootCalls[2].reg = 3
          /\ BootCalls[2].q = [addr |-> \h2c000000, size |-> \h400, perm |-> {}]
      BY SMT DEF BootCalls, Call
    <2>2. Valid([addr |-> \h2c000000, size |-> \h400, perm |-> {}])
      BY <1>3, <1>4, SMT
    <2> QED
      BY <1>2, <2>1, <2>2, SMT
  <1>7. BootCalls[3].reg \in Reg \ {Last} /\ Valid(BootCalls[3].q)
    <2>1. /\ BootCalls[3].reg = 5
          /\ BootCalls[3].q = [addr |-> \h2c001000, size |-> \h400, perm |-> {"R"}]
      BY SMT DEF BootCalls, Call
    <2>2. Valid([addr |-> \h2c001000, size |-> \h400, perm |-> {"R"}])
      BY <1>3, <1>4, SMT
    <2> QED
      BY <1>2, <2>1, <2>2, SMT
  <1>8. BootCalls[4].reg \in Reg \ {Last} /\ Valid(BootCalls[4].q)
    <2>1. /\ BootCalls[4].reg = 7
          /\ BootCalls[4].q = [addr |-> \h2c002000, size |-> \h400, perm |-> {"W"}]
      BY SMT DEF BootCalls, Call
    <2>2. Valid([addr |-> \h2c002000, size |-> \h400, perm |-> {"W"}])
      BY <1>3, <1>4, SMT
    <2> QED
      BY <1>2, <2>1, <2>2, SMT
  <1>9. BootCalls[5].reg \in Reg \ {Last} /\ Valid(BootCalls[5].q)
    <2>1. /\ BootCalls[5].reg = 9
          /\ BootCalls[5].q = [addr |-> \h2c004000, size |-> \h400, perm |-> {}]
      BY SMT DEF BootCalls, Call
    <2>2. Valid([addr |-> \h2c004000, size |-> \h400, perm |-> {}])
      BY <1>3, <1>4, SMT
    <2> QED
      BY <1>2, <2>1, <2>2, SMT
  <1>10. ASSUME NEW i \in 1..5
         PROVE  BootCalls[i].reg \in Reg \ {Last} /\ Valid(BootCalls[i].q)
    <2>1. i = 1 \/ i = 2 \/ i = 3 \/ i = 4 \/ i = 5
      OBVIOUS
    <2> QED
      BY <1>5, <1>6, <1>7, <1>8, <1>9, <2>1
  <1> QED
    BY <1>1, <1>10

\* Every step of a program of MemTest is one of the driver, without disable_pmp.
LEMMA DriverSteps == step \in Nat /\ [MemNext]_allvars => [Enables]_pmpvars
  <1> SUFFICES ASSUME step \in Nat, [MemNext]_allvars
               PROVE  [Enables]_pmpvars
    OBVIOUS
  <1>1. CASE PmpReset
    BY <1>1 DEF PmpReset, Enables
  <1>2. CASE BootPmp
    <2> DEFINE b == BootCalls[step + 1]
    <2>1. b.reg \in Reg \ {Last} /\ Valid(b.q)
      BY <1>2, BootCallsValid DEF BootPmp
    <2>2. EnablePmp(b.reg, b.q) \/ EnablePmpTOR(b.reg, b.q)
      BY <1>2 DEF BootPmp
    <2> QED
      BY <2>1, <2>2 DEF Enables
  <1>3. CASE Machine
    <2>1. PICK r \in Use, q \in Region : EnablePmp(r, q) \/ EnablePmpTOR(r, q)
      BY <1>3 DEF Machine, EnableAny
    <2>2. r \in Reg \ {Last} /\ Valid(q)
      BY PmpAssumption DEF Valid, Last
    <2> QED
      BY <2>1, <2>2 DEF Enables
  <1>4. CASE AnyVme \/ VmeInit \/ Map \/ MapMega
    BY <1>4 DEF AnyVme, VmeInit, Map, MapMega
  <1>5. CASE Sv39Access \/ PmpAccess
    BY <1>5 DEF Sv39Access, PmpAccess
  <1>6. CASE UNCHANGED allvars
    BY <1>6 DEF allvars
  <1> QED
    BY <1>1, <1>2, <1>3, <1>4, <1>5, <1>6 DEF MemNext

\* An access of a test awaits faults that there are.
AllFaults == {LoadPage, StorePage, LoadGuard, StoreGuard}
Fits(o) == o.op = "access" => o.due \subseteq AllFaults

LEMMA OperationsFit ==
  /\ \A how \in {"4K", "2M"} : \A i, a, p : Fits(MapOp(how, i, a, p))
  /\ \A f \in SUBSET AllFaults : \A kind, at, look : Fits(Access(kind, at, f, look))
  /\ \A kind, at : Fits(Fine(kind, at))
  /\ \A f \in AllFaults : \A kind, at : Fits(Bad(kind, at, f))
  <1>1. ASSUME NEW how \in {"4K", "2M"}, NEW i, NEW a, NEW p
        PROVE  Fits(MapOp(how, i, a, p))
    BY DEF Fits, MapOp
  <1>2. ASSUME NEW kind, NEW at, NEW look, NEW f \in SUBSET AllFaults
        PROVE  Fits(Access(kind, at, f, look))
    BY DEF Fits, Access
  <1>3. ASSUME NEW kind, NEW at
        PROVE  Fits(Fine(kind, at))
    BY <1>2 DEF Fine
  <1>4. ASSUME NEW kind, NEW at, NEW f \in AllFaults
        PROVE  Fits(Bad(kind, at, f))
    BY <1>2 DEF Bad
  <1> QED
    BY <1>1, <1>2, <1>3, <1>4

LEMMA TextsFit ==
  /\ \A i \in 1..Len(TextS) : Fits(TextS[i])
  /\ \A i \in 1..Len(TextF) : Fits(TextF[i])
  /\ \A i \in 1..Len(TextG) : Fits(TextG[i])
  <1>1. \A i \in 1..Len(TextS) : Fits(TextS[i])
    BY OperationsFit, SMTT(30) DEF TextS, AllFaults
  <1>2. \A i \in 1..Len(TextF) : Fits(TextF[i])
    BY OperationsFit, SMTT(60) DEF TextF, AllFaults
  <1>3. \A i \in 1..Len(TextG) : Fits(TextG[i])
    <2> DEFINE o(i) == LET v == FaultPage((i + 2) \div 3)
                       IN  CASE i % 3 = 1 -> Bad("store", v, StoreGuard)
                             [] i % 3 = 2 -> Bad("load", v, LoadGuard)
                             [] i % 3 = 0 -> Fine("store", Page[2])
               far(i) == [op |-> "4K", page |-> FaultPage(i), target |-> <<Far, {"R", "W"}>>]
               maps   == <<MapOp("4K", 1, \h20008000, {"R", "W"}), MapOp("4K", 2, \h20008000, {"R", "W"})>>
               fars   == [i \in 1..Faults |-> far(i)]
               fine   == <<Fine("store", Page[2]), Fine("load", Page[1])>>
               probes == [i \in 1..(3 * Faults) |-> o(i)]
    <2>1. Faults \in Nat
      BY MemAssumption
    <2>2. ASSUME NEW i \in 1..(3 * Faults)
          PROVE  Fits(o(i))
      BY <2>1, OperationsFit, SMTT(30) DEF AllFaults
    <2>3. \A i \in 1..Faults : Fits(far(i))
      BY SMT DEF Fits
    <2>4. \A i \in 1..2 : Fits(maps[i]) /\ Fits(fine[i])
      BY OperationsFit, SMT
    <2> HIDE DEF o, far
    <2>5. Len(maps) = 2 /\ Len(fars) = Faults /\ Len(fine) = 2 /\ Len(probes) = 3 * Faults
      BY <2>1, SMT
    <2>6. TextG = ((maps \o fars) \o fine) \o probes
      BY SMT DEF TextG, o, far
    <2> QED
      BY <2>1, <2>2, <2>3, <2>4, <2>5, <2>6, SMTT(30)
  <1> QED
    BY <1>1, <1>2, <1>3

-----------------------------------------------------------------------------
(* The invariant of MemTest: the driver's, and RvVme's in a program that   *)
(* uses its operations.                                                    *)

MemInv == /\ PmpInv
          /\ prog \in Tests \cup {"any", "machine"} /\ step \in Nat
          /\ due \subseteq AllFaults /\ failed \in BOOLEAN
          /\ prog \notin Tests => IInv

LEMMA StepMemInv == MemInv /\ [MemNext]_allvars => MemInv'
  <1> SUFFICES ASSUME MemInv, [MemNext]_allvars
               PROVE  MemInv'
    OBVIOUS
  <1>1. PmpInv'
    BY DriverSteps, StepPmpInv DEF MemInv
  <1>2. prog' = prog
    BY DEF MemNext, PmpReset, BootPmp, Machine, AnyVme, VmeInit, Map, MapMega, Sv39Access, PmpAccess,
           tests, allvars
  <1>3. step' \in Nat
    <2>1. step' \in {step, step + 1}
      BY DEF MemNext, PmpReset, BootPmp, Machine, AnyVme, VmeInit, Map, MapMega, Sv39Access, PmpAccess,
             Runs, tests, allvars
    <2> QED
      BY <2>1 DEF MemInv
  <1>4. due' \subseteq AllFaults /\ failed' \in BOOLEAN
    <2>1. CASE Sv39Access
      <3> DEFINE op == Operation
      <3>1. prog \in {"s", "f", "g"} /\ op.op = "access"
        BY <2>1 DEF Sv39Access, Runs, Tests
      <3>2. step - Len(BootCalls) + 1 \in 1..Len(Text[prog])
        BY <2>1, BootCallsValid DEF Sv39Access, Runs, Supervisor, MemInv
      <3>3. Fits(op)
        BY <3>1, <3>2, TextsFit DEF Operation, Text
      <3>4. op.due \subseteq AllFaults
        BY <3>1, <3>3 DEF Fits
      <3> HIDE DEF op
      <3>5. due' \subseteq due \cup op.due /\ failed' \in BOOLEAN
        BY <2>1 DEF Sv39Access, op
      <3> QED
        BY <3>4, <3>5 DEF MemInv
    <2>2. CASE ~Sv39Access
      <3>1. due' = due /\ failed' \in BOOLEAN
        BY <2>2 DEF MemInv, MemNext, PmpReset, BootPmp, Machine, AnyVme, VmeInit, Map, MapMega, PmpAccess,
                    tests, allvars
      <3> QED
        BY <3>1 DEF MemInv
    <2> QED
      BY <2>1, <2>2
  <1>5. ASSUME prog \notin Tests
        PROVE  IInv'
    <2>1. [Next]_vars
      BY <1>5 DEF MemNext, PmpReset, BootPmp, Machine, AnyVme, VmeInit, Map, MapMega, Sv39Access, PmpAccess,
                  Runs, allvars
    <2> QED
      BY <1>5, <2>1, StepIInv DEF MemInv
  <1> QED
    BY <1>1, <1>2, <1>3, <1>4, <1>5 DEF MemInv

THEOREM MemInvariance == MemSpec => []MemInv
  <1>1. ASSUME MemInit
        PROVE  MemInv
    <2>1. PmpInv /\ IInv
      BY <1>1, InitPmpInv, InitIInv, Zenon DEF MemInit
    <2>2. /\ prog \in Tests \cup {"any", "machine"}
          /\ due \subseteq AllFaults /\ failed \in BOOLEAN
      BY <1>1, Zenon DEF MemInit
    <2>3. step \in Nat
      BY <1>1, SMT DEF MemInit
    <2> QED
      BY <2>1, <2>2, <2>3, Zenon DEF MemInv
  <1> QED
    BY <1>1, StepMemInv, PTL DEF MemSpec

\* Registers, page tables and the state of the tests keep their types.
THEOREM MemTypeCorrect == MemSpec => []MemTypeOK
  <1>1. MemInv => MemTypeOK
    BY IInvTypes DEF MemInv, PmpInv, PmpTypeOK, MemTypeOK, AllFaults
  <1> QED
    BY <1>1, MemInvariance, PTL

\* After the boot code's calls, or any others without disable_pmp, the hart allows
\* exactly what they have asked for: in enable_pmp's encoding every address of a region
\* and none beside it, and of two regions the one in the lower register.
THEOREM RequestsAreHeld == MemSpec => []RequestsHold
  <1>1. MemInv => RequestsHold
    BY Enforces, PmpAssumption DEF MemInv, RequestsHold
  <1> QED
    BY <1>1, MemInvariance, PTL

\* With memory protection around it, a program that maps pages in any order never loses
\* the kernel's.
THEOREM ProgramsKeepKernel == MemSpec => [](prog \notin Tests => KernelStays)
  <1>1. MemInv => (prog \notin Tests => KernelStays)
    BY KernelThere DEF MemInv
  <1> QED
    BY <1>1, MemInvariance, PTL

-----------------------------------------------------------------------------
(* The tests' use of the page tables: RvVme with the targets and the pages *)
(* of a test for those of the program that maps as it likes.               *)

TestPa  == Nat \X SUBSET Perm
Small4K == {Page[i] : i \in 1..3} \cup {FaultPage(i) : i \in 1..Faults}
Mega    == {Prefix(Page[i]) : i \in 2..5}

\* sv39_test and sv39_ppn_af_test; sv39_hp_atom_test.
Sv39 == INSTANCE RvVme_proofs WITH Pa <- TestPa, ExtraVa <- Small4K, HugeVa <- {}
Hp   == INSTANCE RvVme_proofs WITH Pa <- TestPa, ExtraVa <- {Page[1]}, HugeVa <- Mega

LEMMA FaultPages ==
  \A i \in 1..Faults : /\ FaultPage(i) \in Vpn /\ Prefix(FaultPage(i)) = Prefix(Page[3])
  <1> SUFFICES ASSUME NEW i \in 1..Faults
               PROVE  FaultPage(i) \in Vpn /\ Prefix(FaultPage(i)) = Prefix(Page[3])
    OBVIOUS
  <1>1. i - 1 \in Idx
    BY MemAssumption
  <1>2. Page[3] \in Vpn
    BY MemAssumption
  <1> QED
    BY <1>1, <1>2 DEF FaultPage, Prefix, Vpn

\* The pages of the tests suit these uses of RvVme.
LEMMA Sv39Assumption ==
  /\ Small4K \subseteq Vpn /\ Fault \notin TestPa \cup KernelVa \cup {Junk}
  /\ Page[1] \in Vpn /\ Page[1] \in Small4K
  <1>1. Fault \notin TestPa \cup KernelVa \cup {Junk}
    BY VmeAssumption, MemAssumption DEF TestPa
  <1>2. \A i \in 1..3 : Page[i] \in Vpn
    BY MemAssumption
  <1> QED
    BY <1>1, <1>2, FaultPages DEF Small4K

LEMMA HpAssumption ==
  /\ Fault \notin TestPa \cup KernelVa \cup {Junk}
  /\ Page[1] \in Vpn /\ {Page[1]} \subseteq Vpn
  /\ Mega \subseteq (Idx \X Idx) \cup {<<i>> : i \in Idx}
  /\ \A i, j \in Idx : <<i, j>> \in Mega => <<i>> \notin Mega
  /\ \A h \in Mega, v \in KernelVa \cup {Page[1]} \cup UserVa : h # <<v[1], v[2]>> /\ h # <<v[1]>>
  <1>1. \A i \in 1..5 : Page[i] \in Vpn
    BY MemAssumption
  <1>2. ASSUME NEW h \in Mega
        PROVE  \E i \in 2..5 : h = Prefix(Page[i]) /\ h = <<Page[i][1], Page[i][2]>>
    BY DEF Mega, Prefix
  <1>3. ASSUME NEW h \in Mega
        PROVE  h \in Idx \X Idx /\ \A i : h # <<i>>
    <2>1. PICK i \in 2..5 : h = <<Page[i][1], Page[i][2]>>
      BY <1>2
    <2>2. Page[i] \in Vpn
      BY <1>1
    <2> QED
      BY <2>1, <2>2 DEF Vpn
  <1>4. ASSUME NEW h \in Mega, NEW v \in KernelVa \cup {Page[1]} \cup UserVa
        PROVE  h # <<v[1], v[2]>>
    <2>1. PICK i \in 2..5 : h = Prefix(Page[i])
      BY <1>2
    <2>2. Prefix(Page[i]) # Prefix(v)
      <3>1. CASE v = Page[1]
        BY <3>1, MemAssumption
      <3>2. CASE v # Page[1]
        BY <3>2, MemAssumption
      <3> QED
        BY <3>1, <3>2
    <2> QED
      BY <2>1, <2>2 DEF Prefix
  <1> QED
    BY <1>1, <1>3, <1>4, Sv39Assumption

LEMMA Sv39Step == Sv39!IInv /\ [Sv39!Next]_(Sv39!vars) => Sv39!IInv'
  BY Sv39!StepIInv, Sv39Assumption, VmeAssumption DEF Sv39!Vpn, Vpn

LEMMA HpStep == Hp!IInv /\ [Hp!Next]_(Hp!vars) => Hp!IInv'
  BY Hp!StepIInv, HpAssumption, VmeAssumption DEF Hp!Vpn, Vpn

LEMMA TestInit == Init => Sv39!IInv /\ Hp!IInv
  <1> SUFFICES ASSUME Init
               PROVE  Sv39!IInv /\ Hp!IInv
    OBVIOUS
  <1>1. Sv39!Init /\ Hp!Init
    BY DEF Init, Sv39!Init, Hp!Init, Frame, Sv39!Frame, Hp!Frame, Space, Sv39!Space, Hp!Space,
           PageAt, Sv39!PageAt, Hp!PageAt
  <1>2. Sv39!IInv
    BY <1>1, Sv39!InitIInv, Sv39Assumption, VmeAssumption DEF Sv39!Vpn, Vpn
  <1>3. Hp!IInv
    BY <1>1, Hp!InitIInv, HpAssumption, VmeAssumption DEF Hp!Vpn, Vpn
  <1> QED
    BY <1>2, <1>3

LEMMA TestKernelThere == Sv39!IInv \/ Hp!IInv => KernelStays
  <1>1. ASSUME Sv39!IInv
        PROVE  KernelStays
    <2>1. Sv39!KernelStays
      BY <1>1, Sv39!KernelThere, Sv39Assumption, VmeAssumption DEF Sv39!Vpn, Vpn
    <2> QED
      BY <2>1, Zenon DEF KernelStays, Sv39!KernelStays, Lookup, Sv39!Lookup, Space, Sv39!Space
  <1>2. ASSUME Hp!IInv
        PROVE  KernelStays
    <2>1. Hp!KernelStays
      BY <1>2, Hp!KernelThere, HpAssumption, VmeAssumption DEF Hp!Vpn, Vpn
    <2> QED
      BY <2>1 DEF KernelStays, Hp!KernelStays, Lookup, Hp!Lookup, Space, Hp!Space
  <1> QED
    BY <1>1, <1>2

LEMMA TestLookup ==
  ASSUME Sv39!IInv \/ Hp!IInv, root[Kas] # 0, NEW v \in Vpn
  PROVE  Lookup(Kas, v) = Find(mem, root[Kas], v)
  <1>1. Kas \in Sv39!Space /\ Kas \in Hp!Space /\ v \in Sv39!Vpn /\ v \in Hp!Vpn
    BY DEF Sv39!Space, Hp!Space, Sv39!Vpn, Hp!Vpn, Vpn
  <1>2. CASE Sv39!IInv
    <2>1. Sv39!Lookup(Kas, v) = Sv39!Find(mem, root[Kas], v)
      BY <1>1, <1>2, Sv39!LookupNow, Sv39Assumption, VmeAssumption DEF Sv39!Vpn, Vpn
    <2> QED
      BY <2>1, Zenon DEF Lookup, Sv39!Lookup, Find, Sv39!Find
  <1>3. CASE Hp!IInv
    <2>1. Hp!Lookup(Kas, v) = Hp!Find(mem, root[Kas], v)
      BY <1>1, <1>3, Hp!LookupNow, HpAssumption, VmeAssumption DEF Hp!Vpn, Vpn
    <2> QED
      BY <2>1, Zenon DEF Lookup, Hp!Lookup, Find, Hp!Find
  <1> QED
    BY <1>2, <1>3

\* A walk is the same operation in the uses of RvVme.
LEMMA SameWalks ==
  \A v, p : /\ Sv39!Walk4K(Kas, v, p) = Walk4K(Kas, v, p)
            /\ Hp!Walk4K(Kas, v, p) = Walk4K(Kas, v, p)
            /\ Hp!Walk2M(Kas, v, p) = Walk2M(Kas, v, p)
  <1>1. /\ Sv39!WalkFrom(Kas) = WalkFrom(Kas) /\ Hp!WalkFrom(Kas) = WalkFrom(Kas)
        /\ Sv39!Empty = Empty /\ Hp!Empty = Empty
    BY DEF WalkFrom, Sv39!WalkFrom, Hp!WalkFrom, Empty, Sv39!Empty, Hp!Empty, None, Sv39!None, Hp!None
  <1>2. \A w : Sv39!NewPage(w) = NewPage(w) /\ Hp!NewPage(w) = NewPage(w)
    BY <1>1, Zenon DEF NewPage, Sv39!NewPage, Hp!NewPage
  <1>3. \A w, t, i : Sv39!Hook(w, t, i) = Hook(w, t, i) /\ Hp!Hook(w, t, i) = Hook(w, t, i)
    BY Zenon DEF Hook, Sv39!Hook, Hp!Hook, TableAt, Sv39!TableAt, Hp!TableAt
  <1>4. \A w, i : Sv39!Descend(w, i) = Descend(w, i) /\ Hp!Descend(w, i) = Descend(w, i)
    BY <1>2, <1>3, Zenon DEF Descend, Sv39!Descend, Hp!Descend
  <1>5. \A w, i, p : Sv39!SetLeaf(w, i, p) = SetLeaf(w, i, p) /\ Hp!SetLeaf(w, i, p) = SetLeaf(w, i, p)
    BY Zenon DEF SetLeaf, Sv39!SetLeaf, Hp!SetLeaf, PageAt, Sv39!PageAt, Hp!PageAt
  <1> QED
    BY <1>1, <1>4, <1>5, Zenon DEF Walk4K, Sv39!Walk4K, Hp!Walk4K, Walk2M, Hp!Walk2M

\* A walk in the kernel's space that maps page v to p, if nothing was there.
Adds(v, p) ==
  /\ Find(mem, root[Kas], v) = Fault => Find(mem', root[Kas], v) = p
  /\ \A u \in Vpn : u # v => Find(mem', root[Kas], u) = Find(mem, root[Kas], u)

LEMMA Sv39Adds ==
  ASSUME Sv39!IInv, root[Kas] # 0, NEW v \in KernelVa \cup Small4K, NEW p \in TestPa \cup KernelVa,
         used + 2 <= MaxTables, Becomes(Walk4K(Kas, v, p))
  PROVE  Adds(v, p)
  <1>1. PICK P : Sv39!Good(P)
    BY DEF Sv39!IInv
  <1>2. /\ Kas \in Sv39!Space /\ v \in Sv39!Vpn /\ Sv39!Small(v) /\ p \in Sv39!Target
    BY Sv39Assumption, VmeAssumption DEF Sv39!Space, Sv39!Vpn, Vpn, Sv39!Small, Sv39!Target
  <1>3. Sv39!Becomes(Sv39!Walk4K(Kas, v, p))
    BY SameWalks, Zenon DEF Becomes, Sv39!Becomes
  <1>4. PICK Q : Sv39!Mapped(mem, used, P, root[Kas], v, p, mem', used', Q)
    BY <1>1, <1>2, <1>3, Sv39!WalkStep, Sv39Assumption, VmeAssumption DEF Sv39!Vpn, Vpn
  <1>5. root[Kas] \in 1..used /\ P[root[Kas]].level = 2
    BY <1>1, <1>2, Sv39!RootFacts, Sv39Assumption, VmeAssumption DEF Sv39!Vpn, Vpn
  <1> QED
    BY <1>4, <1>5, Zenon DEF Sv39!Mapped, Sv39!Vpn, Vpn, Adds, Find, Sv39!Find

LEMMA HpAdds ==
  ASSUME Hp!IInv, root[Kas] # 0, NEW v \in KernelVa \cup {Page[1]}, NEW p \in TestPa \cup KernelVa,
         used + 2 <= MaxTables, Becomes(Walk4K(Kas, v, p))
  PROVE  /\ Adds(v, p)
         /\ \A u \in Vpn : Prefix(u) # Prefix(v) => KeepsMiddle(mem, root[Kas], u, mem')
  <1>1. PICK P : Hp!Good(P)
    BY DEF Hp!IInv
  <1>2. /\ Kas \in Hp!Space /\ v \in Hp!Vpn /\ Hp!Small(v) /\ p \in Hp!Target
    BY HpAssumption, VmeAssumption DEF Hp!Space, Hp!Vpn, Vpn, Hp!Small, Hp!Target
  <1>3. Hp!Becomes(Hp!Walk4K(Kas, v, p))
    BY SameWalks, Zenon DEF Becomes, Hp!Becomes
  <1>4. PICK Q : /\ Hp!Mapped(mem, used, P, root[Kas], v, p, mem', used', Q)
                 /\ Hp!Beside(mem, root[Kas], v[1], v[2], mem')
    BY <1>1, <1>2, <1>3, Hp!WalkStep, HpAssumption, VmeAssumption DEF Hp!Vpn, Vpn
  <1>5. root[Kas] \in 1..used /\ P[root[Kas]].level = 2
    BY <1>1, <1>2, Hp!RootFacts, HpAssumption, VmeAssumption DEF Hp!Vpn, Vpn
  <1>6. Adds(v, p)
    BY <1>4, <1>5, Zenon DEF Hp!Mapped, Hp!Vpn, Vpn, Adds, Find, Hp!Find
  <1>7. ASSUME NEW u \in Vpn, Prefix(u) # Prefix(v)
        PROVE  KeepsMiddle(mem, root[Kas], u, mem')
    BY <1>4, <1>7, Zenon DEF Prefix, Hp!Beside, Hp!KeepsMiddle, KeepsMiddle, Hp!Middle, Middle, Hp!Vpn, Vpn
  <1> QED
    BY <1>6, <1>7

\* A walk for the 2 MiB page h that maps it to p, if nothing was there.
HugeAdds(h, p) ==
  \A u \in Vpn :
    /\ Prefix(u) = h /\ Middle(mem, root[Kas], u).to = "none" =>
         Middle(mem', root[Kas], u).to = "page" /\ Middle(mem', root[Kas], u).at = p
    /\ Prefix(u) # h => KeepsMiddle(mem, root[Kas], u, mem')
    /\ Prefix(u) \notin Mega => Find(mem', root[Kas], u) = Find(mem, root[Kas], u)

LEMMA HpHugeAdds ==
  ASSUME Hp!IInv, root[Kas] # 0, NEW h \in Mega, NEW p \in TestPa,
         used + 1 <= MaxTables, Becomes(Walk2M(Kas, h, p))
  PROVE  HugeAdds(h, p)
  <1>1. PICK P : Hp!Good(P)
    BY DEF Hp!IInv
  <1>2. Kas \in Hp!Space /\ p \in Hp!Target /\ h \in Idx \X Idx
    <2>1. PICK i \in 2..5 : h = <<Page[i][1], Page[i][2]>>
      BY DEF Mega, Prefix
    <2>2. Page[i] \in Vpn
      BY MemAssumption
    <2> QED
      BY <2>1, <2>2 DEF Hp!Space, Hp!Target, Vpn
  <1>3. Hp!Becomes(IF h \in Idx \X Idx THEN Hp!Walk2M(Kas, h, p) ELSE Hp!Walk1G(Kas, h, p))
    <2>1. Hp!Becomes(Hp!Walk2M(Kas, h, p))
      BY SameWalks, Zenon DEF Becomes, Hp!Becomes
    <2> QED
      BY <1>2, <2>1, Zenon
  <1>4. /\ \E Q : Hp!HugeWalked(mem, used, P, root[Kas], h[1], mem', used', Q)
        /\ Hp!MegaMapped(mem, root[Kas], h[1], h[2], p, mem')
    BY <1>1, <1>2, <1>3, Hp!HugeStep, HpAssumption, VmeAssumption DEF Hp!Vpn, Vpn
  <1>5. root[Kas] \in 1..used /\ P[root[Kas]].level = 2
    BY <1>1, <1>2, Hp!RootFacts, HpAssumption, VmeAssumption DEF Hp!Vpn, Vpn
  <1>6. h = <<h[1], h[2]>> /\ \A i : <<i>> \notin Mega
    <2>1. \A g \in Mega : \A i : g # <<i>>
      <3> SUFFICES ASSUME NEW j \in 2..5
                   PROVE  \A i : Prefix(Page[j]) # <<i>>
        BY DEF Mega
      <3> QED
        BY DEF Prefix
    <2> QED
      BY <1>2, <2>1
  <1> SUFFICES ASSUME NEW u \in Vpn
               PROVE  /\ Prefix(u) = h /\ Middle(mem, root[Kas], u).to = "none" =>
                           /\ Middle(mem', root[Kas], u).to = "page"
                           /\ Middle(mem', root[Kas], u).at = p
                      /\ Prefix(u) # h => KeepsMiddle(mem, root[Kas], u, mem')
                      /\ Prefix(u) \notin Mega => Find(mem', root[Kas], u) = Find(mem, root[Kas], u)
    BY DEF HugeAdds
  <1>7. u \in Hp!Vpn /\ (Prefix(u) = h <=> u[1] = h[1] /\ u[2] = h[2])
    BY <1>6 DEF Prefix, Hp!Vpn, Vpn
  <1>8. /\ u[1] = h[1] /\ u[2] = h[2] /\ Hp!Middle(mem, root[Kas], u).to = "none" =>
             /\ Hp!Middle(mem', root[Kas], u).to = "page"
             /\ Hp!Middle(mem', root[Kas], u).at = p
        /\ ~(u[1] = h[1] /\ u[2] = h[2]) => Hp!KeepsMiddle(mem, root[Kas], u, mem')
    BY <1>4, <1>7, Zenon DEF Hp!MegaMapped, Hp!Beside
  <1>9. Hp!Small(u) => Hp!Find(mem', root[Kas], u) = Hp!Find(mem, root[Kas], u)
    BY <1>4, <1>5, <1>7, Zenon DEF Hp!HugeWalked
  <1>10. Prefix(u) \notin Mega => Hp!Small(u)
    BY <1>6 DEF Prefix, Hp!Small
  <1>11. /\ \A m : Hp!Middle(m, root[Kas], u) = Middle(m, root[Kas], u)
         /\ \A m : Hp!Find(m, root[Kas], u) = Find(m, root[Kas], u)
    BY DEF Hp!Middle, Middle, Hp!Find, Find
  <1> QED
    BY <1>7, <1>8, <1>9, <1>10, <1>11, Zenon DEF Hp!KeepsMiddle, KeepsMiddle

LEMMA HpMiddleFinds ==
  ASSUME Hp!IInv, root[Kas] # 0, NEW v \in Vpn, Middle(mem, root[Kas], v).to = "page"
  PROVE  Find(mem, root[Kas], v) = Middle(mem, root[Kas], v).at
  <1>1. PICK P : Hp!Good(P)
    BY DEF Hp!IInv
  <1>2. Kas \in Hp!Space /\ v \in Hp!Vpn /\ Hp!Shape(mem, used, P)
    BY <1>1 DEF Hp!Space, Hp!Vpn, Vpn, Hp!Good
  <1>3. root[Kas] \in 1..used /\ P[root[Kas]].level = 2
    BY <1>1, <1>2, Hp!RootFacts, HpAssumption, VmeAssumption DEF Hp!Vpn, Vpn
  <1>4. Hp!Middle(mem, root[Kas], v) = Middle(mem, root[Kas], v)
    BY DEF Hp!Middle, Middle
  <1>5. Hp!Find(mem, root[Kas], v) = Hp!Middle(mem, root[Kas], v).at
    BY <1>2, <1>3, <1>4, Hp!MiddleFinds, HpAssumption, VmeAssumption DEF Hp!Vpn, Vpn
  <1> QED
    BY <1>4, <1>5, Zenon DEF Hp!Find, Find

-----------------------------------------------------------------------------
(* The texts: first the mappings, then the accesses.                       *)

FarOp(i) == [op |-> "4K", page |-> FaultPage(i), target |-> <<Far, {"R", "W"}>>]

\* The accesses of sv39_ppn_af_test that come for each page.
RoundOp(i) == LET v == FaultPage((i + 2) \div 3)
              IN  CASE i % 3 = 1 -> Bad("store", v, StoreGuard)
                    [] i % 3 = 2 -> Bad("load", v, LoadGuard)
                    [] i % 3 = 0 -> Fine("store", Page[2])

LEMMA TextSIs ==
  /\ Len(TextS) = 8
  /\ TextS[1] = MapOp("4K", 1, \h20008000, {"R"})
  /\ TextS[2] = MapOp("4K", 2, \h20008000, {"R", "W"})
  /\ TextS[3] = MapOp("4K", 3, \h20008000, {})
  /\ TextS[4] = Fine("store", Page[2])
  /\ TextS[5] = Fine("load", Page[1])
  /\ TextS[6] = Bad("store", Page[3], StorePage)
  /\ TextS[7] = Bad("load", Page[3], LoadPage)
  /\ TextS[8] = Fine("store", Page[2])
  BY SMTT(30) DEF TextS

LEMMA TextFIs ==
  /\ Len(TextF) = 18
  /\ TextF[1] = MapOp("4K", 1, \h20080000, {"R"})
  /\ TextF[2] = MapOp("2M", 2, \h20080000, {"R", "W"})
  /\ TextF[3] = MapOp("2M", 3, \h20080000, {"R"})
  /\ TextF[4] = MapOp("2M", 4, \h20080000, {"W"})
  /\ TextF[5] = MapOp("2M", 5, \h2c000000, {"R", "W"})
  /\ \A i \in {6, 11, 14} : TextF[i] = Fine("store", Page[2])
  /\ TextF[7] = Fine("load", Page[2])
  /\ TextF[8] = Fine("load", Page[1])
  /\ TextF[9] = Bad("store", Page[3], StorePage)
  /\ \A i \in {10, 16} : TextF[i] = Bad("load", Page[4], LoadPage)
  /\ TextF[12] = Access("store", Page[5], {StoreGuard}, {StorePage})
  /\ \A i \in {13, 18} : TextF[i] = Bad("load", Page[5], LoadGuard)
  /\ TextF[15] = Bad("amo", Page[3], StorePage)
  /\ TextF[17] = Access("amo", Page[5], {StoreGuard}, {StorePage})
  BY SMTT(30) DEF TextF

LEMMA TextCIs ==
  /\ Len(TextC) = 11
  /\ TextC[1] = Bad("store", \h24000010, StoreGuard)
  /\ TextC[2] = Fine("store", \h28000000)
  /\ \A i \in {3, 8} : TextC[i] = Bad("store", \h2c000010, StoreGuard)
  /\ TextC[4] = Bad("load", \h24000010, LoadGuard)
  /\ \A i \in {5, 7} : TextC[i] = Bad("load", \h2c000010, LoadGuard)
  /\ TextC[6] = Bad("store", \h2c004000, StoreGuard)
  /\ TextC[9] = Bad("amo", \h2c000010, StoreGuard)
  /\ TextC[10] = Bad("amo", \h2c002000, StoreGuard)
  /\ TextC[11] = Bad("amo", \h2c001000, StoreGuard)
  BY SMTT(30) DEF TextC

LEMMA TextGIs ==
  /\ Faults \in Nat \ {0} /\ Len(TextG) = 4 * Faults + 4
  /\ TextG[1] = MapOp("4K", 1, \h20008000, {"R", "W"})
  /\ TextG[2] = MapOp("4K", 2, \h20008000, {"R", "W"})
  /\ \A i \in 1..Faults : TextG[i + 2] = FarOp(i)
  /\ TextG[Faults + 3] = Fine("store", Page[2])
  /\ TextG[Faults + 4] = Fine("load", Page[1])
  /\ \A i \in 1..(3 * Faults) : TextG[Faults + 4 + i] = RoundOp(i)
  <1> DEFINE maps   == <<MapOp("4K", 1, \h20008000, {"R", "W"}), MapOp("4K", 2, \h20008000, {"R", "W"})>>
             fars   == [i \in 1..Faults |-> FarOp(i)]
             fine   == <<Fine("store", Page[2]), Fine("load", Page[1])>>
             rounds == [i \in 1..(3 * Faults) |-> RoundOp(i)]
  <1>1. Faults \in Nat \ {0}
    BY MemAssumption
  <1>2. TextG = ((maps \o fars) \o fine) \o rounds
    BY SMT DEF TextG, FarOp, RoundOp
  <1>3. Len(maps) = 2 /\ Len(fars) = Faults /\ Len(fine) = 2 /\ Len(rounds) = 3 * Faults
    BY <1>1, SMT
  <1>4. /\ maps[1] = MapOp("4K", 1, \h20008000, {"R", "W"})
        /\ maps[2] = MapOp("4K", 2, \h20008000, {"R", "W"})
        /\ \A i \in 1..Faults : fars[i] = FarOp(i)
        /\ fine[1] = Fine("store", Page[2]) /\ fine[2] = Fine("load", Page[1])
        /\ \A i \in 1..(3 * Faults) : rounds[i] = RoundOp(i)
    BY SMT
  <1>5. Len(TextG) = 4 * Faults + 4
    BY <1>1, <1>2, <1>3, SMT
  <1>6. \A i \in 1..2 : TextG[i] = maps[i]
    BY <1>1, <1>2, <1>3, SMT
  <1>7. \A i \in 1..Faults : TextG[i + 2] = fars[i]
    BY <1>1, <1>2, <1>3, SMT
  <1>8. \A i \in 1..2 : TextG[i + Faults + 2] = fine[i]
    BY <1>1, <1>2, <1>3, SMT
  <1>9. \A i \in 1..(3 * Faults) : TextG[i + Faults + 4] = rounds[i]
    BY <1>1, <1>2, <1>3, SMT
  <1> QED
    BY <1>1, <1>4, <1>5, <1>6, <1>7, <1>8, <1>9, SMTT(30)

\* How many operations of a text map.
Maps == [s |-> 3, f |-> 5, g |-> Faults + 2]
Sv39Tests == {"s", "f", "g"}

LEMMA TargetsFit ==
  /\ <<\h20008000, {"R"}>> \in TestPa /\ <<\h20008000, {"R", "W"}>> \in TestPa
  /\ <<\h20008000, {}>> \in TestPa /\ <<\h20080000, {"R"}>> \in TestPa
  /\ <<\h20080000, {"R", "W"}>> \in TestPa /\ <<\h20080000, {"W"}>> \in TestPa
  /\ <<\h2c000000, {"R", "W"}>> \in TestPa /\ <<Far, {"R", "W"}>> \in TestPa
  <1>1. Far \in Nat
    BY AllOnesType DEF Far
  <1> QED
    BY <1>1, SMT DEF TestPa, Perm

\* All mappings come first.
LEMMA MapsFirst ==
  ASSUME NEW t \in Sv39Tests
  PROVE  /\ Maps[t] \in Nat /\ Maps[t] <= Len(Text[t]) /\ Len(Text[t]) \in Nat
         /\ \A i \in 1..Len(Text[t]) :
              IF i <= Maps[t] THEN Text[t][i].op \in {"4K", "2M"} ELSE Text[t][i].op = "access"
  <1>1. \A how, i, a, p : MapOp(how, i, a, p).op = how
    BY DEF MapOp
  <1>2. /\ \A kind, at, f, look : Access(kind, at, f, look).op = "access"
        /\ \A kind, at : Fine(kind, at).op = "access"
        /\ \A kind, at, f : Bad(kind, at, f).op = "access"
    BY DEF Access, Fine, Bad
  <1>3. CASE t = "s"
    <2>1. Maps[t] = 3 /\ Text[t] = TextS
      BY <1>3 DEF Maps, Text
    <2>2. \A i \in 1..3 : TextS[i].op = "4K"
      BY <1>1, TextSIs, SMT
    <2>3. \A i \in 4..8 : TextS[i].op = "access"
      BY <1>2, TextSIs, SMT
    <2> QED
      BY <2>1, <2>2, <2>3, TextSIs, SMT
  <1>4. CASE t = "f"
    <2>1. Maps[t] = 5 /\ Text[t] = TextF
      BY <1>4 DEF Maps, Text
    <2>2. \A i \in 1..5 : TextF[i].op \in {"4K", "2M"}
      BY <1>1, TextFIs, SMT
    <2>3. \A i \in 6..18 : TextF[i].op = "access"
      BY <1>2, TextFIs, SMT
    <2> QED
      BY <2>1, <2>2, <2>3, TextFIs, SMT
  <1>5. CASE t = "g"
    <2>1. Maps[t] = Faults + 2 /\ Text[t] = TextG
      BY <1>5 DEF Maps, Text
    <2>2. \A i \in 1..(Faults + 2) : TextG[i].op = "4K"
      <3>1. \A i \in 1..Faults : FarOp(i).op = "4K"
        BY SMT DEF FarOp
      <3>2. TextG[1].op = "4K" /\ TextG[2].op = "4K" /\ \A i \in 1..Faults : TextG[i + 2].op = "4K"
        <4>1. TextG[1].op = "4K" /\ TextG[2].op = "4K"
          BY <1>1, TextGIs, SMT
        <4>2. \A i \in 1..Faults : TextG[i + 2] = FarOp(i)
          BY TextGIs, SMT
        <4> QED
          BY <3>1, <4>1, <4>2, Zenon
      <3>3. \A i \in 3..(Faults + 2) : i - 2 \in 1..Faults /\ i = (i - 2) + 2
        BY TextGIs, SMT
      <3>4. \A i \in 3..(Faults + 2) : TextG[i].op = "4K"
        BY <3>2, <3>3, Zenon
      <3>5. \A i \in 1..(Faults + 2) : i = 1 \/ i = 2 \/ i \in 3..(Faults + 2)
        BY TextGIs, SMT
      <3> QED
        BY <3>2, <3>4, <3>5, Zenon
    <2>3. \A i \in (Faults + 3)..(4 * Faults + 4) : TextG[i].op = "access"
      <3>1. ASSUME NEW i \in 1..(3 * Faults)
            PROVE  RoundOp(i).op = "access"
        BY <1>2, TextGIs, SMT DEF RoundOp
      <3>2. /\ TextG[Faults + 3].op = "access" /\ TextG[Faults + 4].op = "access"
            /\ \A i \in 1..(3 * Faults) : TextG[Faults + 4 + i].op = "access"
        BY <1>2, <3>1, TextGIs, SMT
      <3>3. \A i \in (Faults + 5)..(4 * Faults + 4) :
              i - Faults - 4 \in 1..(3 * Faults) /\ i = Faults + 4 + (i - Faults - 4)
        BY TextGIs, SMT
      <3>4. \A i \in (Faults + 5)..(4 * Faults + 4) : TextG[i].op = "access"
        BY <3>2, <3>3, Zenon
      <3>5. \A i \in (Faults + 3)..(4 * Faults + 4) :
              i = Faults + 3 \/ i = Faults + 4 \/ i \in (Faults + 5)..(4 * Faults + 4)
        BY TextGIs, SMT
      <3> QED
        BY <3>2, <3>4, <3>5, Zenon
    <2> QED
      BY <2>1, <2>2, <2>3, TextGIs, SMT
  <1> QED
    BY <1>3, <1>4, <1>5 DEF Sv39Tests

\* What sv39_test and sv39_ppn_af_test map: pages of 4 KiB, each of them once.
LEMMA SmallOps ==
  ASSUME NEW t \in {"s", "g"}
  PROVE  /\ \A i \in 1..Maps[t] : /\ Text[t][i].op = "4K" /\ Text[t][i].page \in Small4K
                                  /\ Text[t][i].target \in TestPa
         /\ \A i, j \in 1..Maps[t] : i # j => Text[t][i].page # Text[t][j].page
  <1>1. \A i, j \in 1..5 : i # j => Page[i] # Page[j]
    BY MemAssumption DEF Prefix
  <1>2. CASE t = "s"
    <2>1. Maps[t] = 3 /\ Text[t] = TextS
      BY <1>2 DEF Maps, Text
    <2>2. \A i \in 1..3 : TextS[i].op = "4K" /\ TextS[i].page = Page[i] /\ TextS[i].target \in TestPa
      <3>1. /\ TextS[1].op = "4K" /\ TextS[1].page = Page[1] /\ TextS[1].target \in TestPa
            /\ TextS[2].op = "4K" /\ TextS[2].page = Page[2] /\ TextS[2].target \in TestPa
            /\ TextS[3].op = "4K" /\ TextS[3].page = Page[3] /\ TextS[3].target \in TestPa
        BY TextSIs, TargetsFit, SMT DEF MapOp
      <3> QED
        BY <3>1
    <2> QED
      BY <1>1, <2>1, <2>2, SMT DEF Small4K
  <1>3. CASE t = "g"
    <2>1. Maps[t] = Faults + 2 /\ Text[t] = TextG /\ Faults \in Nat
      BY <1>3, TextGIs DEF Maps, Text
    <2>2. \A i \in 1..2 : TextG[i].op = "4K" /\ TextG[i].page = Page[i] /\ TextG[i].target \in TestPa
      <3>1. /\ TextG[1].op = "4K" /\ TextG[1].page = Page[1] /\ TextG[1].target \in TestPa
            /\ TextG[2].op = "4K" /\ TextG[2].page = Page[2] /\ TextG[2].target \in TestPa
        BY TextGIs, TargetsFit, SMT DEF MapOp
      <3> QED
        BY <3>1
    <2>3. ASSUME NEW i \in 3..(Faults + 2)
          PROVE  /\ TextG[i].op = "4K" /\ TextG[i].page = FaultPage(i - 2)
                 /\ TextG[i].target \in TestPa /\ i - 2 \in 1..Faults
      <3>1. i - 2 \in 1..Faults /\ i = (i - 2) + 2
        BY <2>1
      <3>2. TextG[i] = FarOp(i - 2)
        BY <3>1, TextGIs, SMT
      <3>3. <<Far, {"R", "W"}>> \in TestPa
        BY TargetsFit, SMT
      <3> QED
        BY <3>1, <3>2, <3>3, SMT DEF FarOp
    <2>4. \A i \in 1..(Faults + 2) : i \in 1..2 \/ i \in 3..(Faults + 2)
      BY <2>1
    <2>5. \A i, j \in 1..Faults : i # j => FaultPage(i) # FaultPage(j)
      BY <2>1 DEF FaultPage
    <2>6. \A i \in 1..2, j \in 1..Faults : Page[i] # FaultPage(j)
      BY FaultPages, MemAssumption DEF Prefix
    <2>7. \A i \in 1..(Faults + 2) : TextG[i].page \in Small4K
      <3>1. \A i \in 1..2 : Page[i] \in Small4K
        BY DEF Small4K
      <3>2. \A i \in 1..Faults : FaultPage(i) \in Small4K
        BY DEF Small4K
      <3> QED
        BY <2>2, <2>3, <2>4, <3>1, <3>2
    <2>8. ASSUME NEW i \in 1..(Faults + 2), NEW j \in 1..(Faults + 2), i # j
          PROVE  TextG[i].page # TextG[j].page
      <3>1. CASE i \in 1..2 /\ j \in 1..2
        BY <1>1, <2>2, <2>8, <3>1
      <3>2. CASE i \in 1..2 /\ j \in 3..(Faults + 2)
        BY <2>2, <2>3, <2>6, <3>2
      <3>3. CASE i \in 3..(Faults + 2) /\ j \in 1..2
        BY <2>2, <2>3, <2>6, <3>3
      <3>4. CASE i \in 3..(Faults + 2) /\ j \in 3..(Faults + 2)
        <4>1. i - 2 # j - 2
          BY <2>1, <2>8
        <4> QED
          BY <2>3, <2>5, <3>4, <4>1
      <3> QED
        BY <2>4, <3>1, <3>2, <3>3, <3>4
    <2> QED
      BY <2>1, <2>2, <2>3, <2>4, <2>7, <2>8
  <1> QED
    BY <1>2, <1>3

\* What sv39_hp_atom_test maps: one page of 4 KiB, then four of 2 MiB.
LEMMA HugeOps ==
  /\ Maps["f"] = 5 /\ \A i \in 1..5 : TextF[i].page = Page[i] /\ TextF[i].target \in TestPa
  /\ TextF[1].op = "4K" /\ \A i \in 2..5 : TextF[i].op = "2M" /\ Prefix(Page[i]) \in Mega
  <1>2. \A i \in 1..5 : TextF[i].page = Page[i] /\ TextF[i].target \in TestPa
    BY TextFIs, TargetsFit, SMTT(30) DEF MapOp
  <1>3. TextF[1].op = "4K" /\ \A i \in 2..5 : TextF[i].op = "2M"
    BY TextFIs, SMT DEF MapOp
  <1> QED
    BY <1>2, <1>3 DEF Maps, Mega

-----------------------------------------------------------------------------
(* What PMP allows once the boot code's calls are over.                    *)

BootAsk(i) == [tor |-> BootCalls[i].tor, addr |-> BootCalls[i].q.addr,
               size |-> BootCalls[i].q.size, perm |-> BootCalls[i].q.perm]

BootInv ==
  prog # "machine" =>
    /\ step > 0 => booted
    /\ \A i \in 1..5 : i <= step => asked[2 * i - 1] = BootAsk(i)
    /\ \A r \in Reg : (\A i \in 1..5 : i <= step => r # 2 * i - 1) => asked[r] = NoRequest

LEMMA BootCallsAre ==
  /\ \A i \in 1..5 : /\ BootCalls[i].reg = 2 * i - 1 /\ 2 * i - 1 \in Reg
                     /\ BootCalls[i].tor \in BOOLEAN
  /\ BootAsk(1).addr = \h24000000 /\ BootAsk(1).size = \h4000 /\ BootAsk(1).perm = {}
  /\ BootAsk(2).addr = \h2c000000 /\ BootAsk(2).size = \h400 /\ BootAsk(2).perm = {}
  /\ BootAsk(3).addr = \h2c001000 /\ BootAsk(3).size = \h400 /\ BootAsk(3).perm = {"R"}
  /\ BootAsk(4).addr = \h2c002000 /\ BootAsk(4).size = \h400 /\ BootAsk(4).perm = {"W"}
  /\ BootAsk(5).addr = \h2c004000 /\ BootAsk(5).size = \h400 /\ BootAsk(5).perm = {}
  <1>1. /\ BootCalls[1].reg = 1 /\ BootCalls[2].reg = 3 /\ BootCalls[3].reg = 5
        /\ BootCalls[4].reg = 7 /\ BootCalls[5].reg = 9
    BY SMT DEF BootCalls, Call
  <1>2. /\ BootCalls[1].q = [addr |-> \h24000000, size |-> \h4000, perm |-> {}]
        /\ BootCalls[2].q = [addr |-> \h2c000000, size |-> \h400, perm |-> {}]
        /\ BootCalls[3].q = [addr |-> \h2c001000, size |-> \h400, perm |-> {"R"}]
        /\ BootCalls[4].q = [addr |-> \h2c002000, size |-> \h400, perm |-> {"W"}]
        /\ BootCalls[5].q = [addr |-> \h2c004000, size |-> \h400, perm |-> {}]
    <2>1. BootCalls[1].q = [addr |-> \h24000000, size |-> \h4000, perm |-> {}]
      BY SMTT(30) DEF BootCalls, Call
    <2>2. BootCalls[2].q = [addr |-> \h2c000000, size |-> \h400, perm |-> {}]
      BY SMTT(30) DEF BootCalls, Call
    <2>3. BootCalls[3].q = [addr |-> \h2c001000, size |-> \h400, perm |-> {"R"}]
      BY SMTT(30) DEF BootCalls, Call
    <2>4. BootCalls[4].q = [addr |-> \h2c002000, size |-> \h400, perm |-> {"W"}]
      BY SMTT(30) DEF BootCalls, Call
    <2>5. BootCalls[5].q = [addr |-> \h2c004000, size |-> \h400, perm |-> {}]
      BY SMTT(30) DEF BootCalls, Call
    <2> QED
      BY <2>1, <2>2, <2>3, <2>4, <2>5
  <1>3. \A i \in 1..5 : BootCalls[i].reg = 2 * i - 1 /\ 2 * i - 1 \in Reg
    BY <1>1, SMT DEF Reg, PMP_COUNT
  <1>4. \A i \in 1..5 : BootCalls[i].tor \in BOOLEAN
    <2>1. /\ BootCalls[1].tor = FALSE /\ BootCalls[2].tor = TRUE /\ BootCalls[3].tor = TRUE
          /\ BootCalls[4].tor = TRUE /\ BootCalls[5].tor = TRUE
      BY SMT DEF BootCalls, Call
    <2>2. \A i \in 1..5 : i = 1 \/ i = 2 \/ i = 3 \/ i = 4 \/ i = 5
      OBVIOUS
    <2> QED
      BY <2>1, <2>2
  <1> QED
    BY <1>2, <1>3, <1>4, SMT DEF BootAsk

LEMMA BootStep == PmpInv /\ step \in Nat /\ BootInv /\ [MemNext]_allvars => BootInv'
  <1> SUFFICES ASSUME PmpInv, step \in Nat, BootInv, [MemNext]_allvars, prog' # "machine"
               PROVE  /\ step' > 0 => booted'
                      /\ \A i \in 1..5 : i <= step' => asked'[2 * i - 1] = BootAsk(i)
                      /\ \A r \in Reg : (\A i \in 1..5 : i <= step' => r # 2 * i - 1) =>
                           asked'[r] = NoRequest
    BY DEF BootInv, BootAsk
  <1>0. Len(BootCalls) = 5
    BY BootCallsValid
  <1>1. prog' = prog
    BY DEF MemNext, PmpReset, BootPmp, Machine, AnyVme, VmeInit, Map, MapMega, Sv39Access, PmpAccess,
           tests, allvars
  <1>2. CASE BootPmp
    <2> DEFINE c == BootCalls[step + 1]
    <2>1. booted /\ step < 5 /\ step' = step + 1 /\ step + 1 \in 1..5
      BY <1>0, <1>2 DEF BootPmp
    <2>2. /\ booted' = booted
          /\ asked' = [asked EXCEPT ![c.reg] = BootAsk(step + 1)]
      <3>1. c.tor \in BOOLEAN
        BY <2>1, BootCallsAre, SMT
      <3>2. IF c.tor THEN EnablePmpTOR(c.reg, c.q) ELSE EnablePmp(c.reg, c.q)
        BY <1>2 DEF BootPmp
      <3> HIDE DEF c
      <3>3. /\ booted' = booted
            /\ asked' = [asked EXCEPT ![c.reg] = [tor |-> c.tor, addr |-> c.q.addr,
                                                  size |-> c.q.size, perm |-> c.q.perm]]
        <4>1. CASE c.tor = TRUE
          BY <3>2, <4>1 DEF EnablePmpTOR, Ask
        <4>2. CASE c.tor = FALSE
          BY <3>2, <4>2 DEF EnablePmp, Ask
        <4> QED
          BY <3>1, <4>1, <4>2
      <3> QED
        BY <3>3 DEF BootAsk, c
    <2>3. c.reg = 2 * (step + 1) - 1 /\ c.reg \in Reg
      BY <2>1, BootCallsAre, SMT
    <2> HIDE DEF c
    <2>4. asked' = [asked EXCEPT ![2 * (step + 1) - 1] = BootAsk(step + 1)]
      BY <2>2, <2>3
    <2>5. /\ 2 * (step + 1) - 1 \in Reg /\ \A i \in 1..5 : 2 * i - 1 \in Reg
          /\ asked'[2 * (step + 1) - 1] = BootAsk(step + 1)
          /\ \A r \in Reg : r # 2 * (step + 1) - 1 => asked'[r] = asked[r]
      BY <2>3, <2>4, BootCallsAre, SMT DEF PmpInv, PmpTypeOK
    <2>6. ASSUME NEW i \in 1..5, i <= step'
          PROVE  asked'[2 * i - 1] = BootAsk(i)
      <3>1. CASE i = step + 1
        BY <2>5, <3>1
      <3>2. CASE i # step + 1
        <4>1. i <= step /\ 2 * i - 1 \in Reg /\ 2 * i - 1 # 2 * (step + 1) - 1
          BY <2>1, <2>5, <2>6, <3>2
        <4> QED
          BY <1>1, <2>5, <4>1 DEF BootInv
      <3> QED
        BY <3>1, <3>2
    <2>7. ASSUME NEW r \in Reg, \A i \in 1..5 : i <= step' => r # 2 * i - 1
          PROVE  asked'[r] = NoRequest
      <3>1. r # 2 * (step + 1) - 1
        BY <2>1, <2>7
      <3>2. \A i \in 1..5 : i <= step => r # 2 * i - 1
        BY <2>1, <2>7
      <3> QED
        BY <1>1, <2>5, <3>1, <3>2 DEF BootInv
    <2> QED
      BY <2>1, <2>2, <2>6, <2>7
  <1>3. CASE PmpReset
    BY <1>1, <1>3 DEF PmpReset, InitPmp, tests, BootInv
  <1>4. CASE ~BootPmp /\ ~PmpReset
    <2>1. UNCHANGED <<asked, booted>>
      BY <1>1, <1>4 DEF MemNext, Machine, AnyVme, VmeInit, Map, MapMega, Sv39Access, PmpAccess,
                        pmpvars, allvars
    <2>2. step' = step \/ (step >= 5 /\ step' = step + 1)
      BY <1>0, <1>4 DEF MemNext, Machine, AnyVme, VmeInit, Map, MapMega, Sv39Access, PmpAccess,
                        Runs, Supervisor, tests, allvars
    <2>3. (step > 0 <=> step' > 0) /\ \A i \in 1..5 : i <= step' <=> i <= step
      BY <2>2
    <2> QED
      BY <1>1, <2>1, <2>3 DEF BootInv
  <1> QED
    BY <1>2, <1>3, <1>4

\* Address w lies in the region of boot call i.
InBoot(i, w) == BootAsk(i).addr <= w /\ w < BootAsk(i).addr + BootAsk(i).size

LEMMA BootHolds ==
  ASSUME PmpInv, BootInv, prog # "machine", step \in Nat, step >= 5, NEW w \in 0..AllOnes
  PROVE  /\ \A k \in 1..5 : InBoot(k, w) /\ (\A i \in 1..5 : InBoot(i, w) => i = k) =>
              Grants(w) = BootAsk(k).perm
         /\ (\A i \in 1..5 : ~InBoot(i, w)) => Grants(w) = Perm
  <1> DEFINE In(q) == q # NoRequest /\ q.addr <= w /\ w < q.addr + q.size
             A == {r \in Reg : In(asked[r])}
  <1>1. booted /\ Grants(w) = Wanted(w)
    BY Enforces DEF BootInv
  <1>2. Wanted(w) = IF A = {} THEN Perm ELSE asked[Lowest(A)].perm
    BY DEF Wanted
  <1>3. /\ \A i \in 1..5 : asked[2 * i - 1] = BootAsk(i)
        /\ \A r \in Reg : (\A i \in 1..5 : r # 2 * i - 1) => asked[r] = NoRequest
    BY DEF BootInv
  <1>4. \A i \in 1..5 : 2 * i - 1 \in Reg /\ BootAsk(i) # NoRequest
    <2>1. ASSUME NEW i \in 1..5
          PROVE  BootAsk(i) # NoRequest
      <3>1. BootCalls[i].q \in [addr : Nat, size : Nat \ {0}, perm : SUBSET Perm]
        BY BootCallsValid DEF Valid
      <3>2. BootCalls[i].tor \in BOOLEAN
        BY BootCallsAre, SMT
      <3> QED
        BY <3>1, <3>2, AskedType DEF BootAsk
    <2> QED
      BY <2>1, BootCallsAre, SMT
  <1>5. A = {2 * i - 1 : i \in {j \in 1..5 : InBoot(j, w)}}
    <2>1. ASSUME NEW r \in A
          PROVE  \E i \in 1..5 : InBoot(i, w) /\ r = 2 * i - 1
      <3>1. PICK i \in 1..5 : r = 2 * i - 1
        BY <1>3
      <3>2. InBoot(i, w)
        BY <1>3, <3>1 DEF InBoot
      <3> QED
        BY <3>1, <3>2
    <2>2. ASSUME NEW i \in 1..5, InBoot(i, w)
          PROVE  2 * i - 1 \in A
      BY <1>3, <1>4, <2>2 DEF InBoot
    <2> QED
      BY <2>1, <2>2
  <1> HIDE DEF A
  <1>6. ASSUME NEW k \in 1..5, InBoot(k, w), \A i \in 1..5 : InBoot(i, w) => i = k
        PROVE  Grants(w) = BootAsk(k).perm
    <2>1. A = {2 * k - 1}
      BY <1>5, <1>6
    <2>2. Lowest(A) = 2 * k - 1
      BY <2>1, LowestIsLeast
    <2> QED
      BY <1>1, <1>2, <1>3, <2>1, <2>2
  <1>7. ASSUME \A i \in 1..5 : ~InBoot(i, w)
        PROVE  Grants(w) = Perm
    <2>1. A = {}
      BY <1>5, <1>7
    <2> QED
      BY <1>1, <1>2, <2>1
  <1> QED
    BY <1>6, <1>7

-----------------------------------------------------------------------------
(* What the accesses of the tests end with.                                *)

Refused(kind) == {<<As(kind), "access">>}

\* Every address that a test reaches, with what supervisor mode may do there.
LEMMA BootGrants ==
  ASSUME PmpInv, BootInv, prog # "machine", step \in Nat, step >= 5
  PROVE  /\ Grants(\h20008000) = Perm /\ Grants(\h20080000) = Perm /\ Grants(\h28000000) = Perm
         /\ Grants(\h24000010) = {} /\ Grants(\h2c000000) = {} /\ Grants(\h2c000010) = {}
         /\ Grants(\h2c004000) = {} /\ Grants(\h2c001000) = {"R"} /\ Grants(\h2c002000) = {"W"}
  <1> DEFINE Only(k, w) == InBoot(k, w) /\ \A i \in 1..5 : InBoot(i, w) => i = k
  <1>1. \A w \in Nat : w <= AllOnes =>
          /\ \A k \in 1..5 : Only(k, w) => Grants(w) = BootAsk(k).perm
          /\ (\A i \in 1..5 : ~InBoot(i, w)) => Grants(w) = Perm
    <2>1. \A w \in Nat : w <= AllOnes => w \in 0..AllOnes
      BY AllOnesType
    <2> QED
      BY <2>1, BootHolds
  <1>2. \A w \in Nat :
          /\ InBoot(1, w) <=> \h24000000 <= w /\ w < \h24004000
          /\ InBoot(2, w) <=> \h2c000000 <= w /\ w < \h2c000400
          /\ InBoot(3, w) <=> \h2c001000 <= w /\ w < \h2c001400
          /\ InBoot(4, w) <=> \h2c002000 <= w /\ w < \h2c002400
          /\ InBoot(5, w) <=> \h2c004000 <= w /\ w < \h2c004400
    BY BootCallsAre, SMT DEF InBoot
  <1>3. \A w \in Nat :
          /\ w < \h24000000 \/ (\h24004000 <= w /\ w < \h2c000000) => \A i \in 1..5 : ~InBoot(i, w)
          /\ \A k \in 1..5 : InBoot(k, w) => Only(k, w)
    <2>1. \A i \in 1..5 : i = 1 \/ i = 2 \/ i = 3 \/ i = 4 \/ i = 5
      BY SMT
    <2> QED
      BY <1>2, <2>1, SMT
  <1>4. \A w \in Nat : w <= \h30000000 => w <= AllOnes
    BY AllOnesValue, SMT
  <1> HIDE DEF Only
  <1>5. Grants(\h20008000) = Perm /\ Grants(\h20080000) = Perm /\ Grants(\h28000000) = Perm
    BY <1>1, <1>3, <1>4, SMT
  <1>6. /\ Grants(\h24000010) = BootAsk(1).perm /\ Grants(\h2c000000) = BootAsk(2).perm
        /\ Grants(\h2c000010) = BootAsk(2).perm /\ Grants(\h2c001000) = BootAsk(3).perm
        /\ Grants(\h2c002000) = BootAsk(4).perm /\ Grants(\h2c004000) = BootAsk(5).perm
    BY <1>1, <1>2, <1>3, <1>4, SMT
  <1> QED
    BY <1>5, <1>6, BootCallsAre, SMT

LEMMA BootFaults ==
  ASSUME PmpInv, BootInv, prog # "machine", step \in Nat, step >= 5
  PROVE  /\ \A kind \in {"load", "store"} :
              /\ \A a \in {\h20008000, \h20080000, \h28000000} : PhysFault(kind, a) = {}
              /\ \A a \in {\h24000010, \h2c000000, \h2c000010, \h2c004000, Far} :
                   PhysFault(kind, a) = Refused(kind)
         /\ \A a \in {\h2c000000, \h2c000010, \h2c001000, \h2c002000} :
              PhysFault("amo", a) = Refused("amo")
  <1>1. /\ Needs("load") = {"R"} /\ Needs("store") = {"W"} /\ Needs("amo") = {"R", "W"}
    BY DEF Needs
  <1>2. Far = AllOnes + 1 /\ AllOnes \in Nat /\ AllOnes >= \h30000000
    BY AllOnesType, AllOnesValue, SMT DEF Far
  <1>3. \A kind, a : /\ a < Far /\ Needs(kind) \subseteq Grants(a) => PhysFault(kind, a) = {}
                     /\ ~(Needs(kind) \subseteq Grants(a)) \/ a = Far => PhysFault(kind, a) = Refused(kind)
    BY <1>2, SMT DEF PhysFault, Refused
  <1>4. /\ \A a \in {\h20008000, \h20080000, \h28000000} : Grants(a) = Perm /\ a < Far
        /\ \A a \in {\h24000010, \h2c000000, \h2c000010, \h2c004000} : Grants(a) = {}
        /\ Grants(\h2c001000) = {"R"} /\ Grants(\h2c002000) = {"W"}
    BY <1>2, BootGrants, SMT
  <1>5. \A kind \in {"load", "store"} : Needs(kind) \subseteq Perm /\ ~(Needs(kind) \subseteq {})
    BY <1>1, Zenon DEF Perm
  <1>6. ~({"R", "W"} \subseteq {}) /\ ~({"R", "W"} \subseteq {"R"}) /\ ~({"R", "W"} \subseteq {"W"})
    OBVIOUS
  <1> HIDE DEF Far
  <1>7. /\ \A kind \in {"load", "store"} : \A a \in {\h20008000, \h20080000, \h28000000} :
             PhysFault(kind, a) = {}
    BY <1>3, <1>4, <1>5, SMT
  <1>8. \A kind \in {"load", "store"} :
          \A a \in {\h24000010, \h2c000000, \h2c000010, \h2c004000, Far} :
             PhysFault(kind, a) = Refused(kind)
    BY <1>3, <1>4, <1>5, SMT
  <1>9. \A a \in {\h2c000000, \h2c000010, \h2c001000, \h2c002000} :
          PhysFault("amo", a) = Refused("amo")
    BY <1>1, <1>3, <1>4, <1>6, SMT
  <1> QED
    BY <1>7, <1>8, <1>9, SMT

LEMMA Refusals == /\ Refused("load") = {LoadGuard} /\ Refused("store") = {StoreGuard}
                  /\ Refused("amo") = {StoreGuard}
  BY DEF Refused, As, LoadGuard, StoreGuard

\* The result of an access with translation on, to a page that is mapped.
LEMMA Translated ==
  ASSUME enabled, NEW kind \in {"load", "store", "amo"}, NEW at, NEW a, NEW p,
         Lookup(satp, at) = <<a, p>>, <<a, p>> \in TestPa
  PROVE  /\ ~(Needs(kind) \subseteq p) \/ ("W" \in p /\ "R" \notin p) =>
              FaultOf(kind, at) = {<<As(kind), "page">>}
         /\ Needs(kind) \subseteq p /\ ("W" \in p => "R" \in p) =>
              FaultOf(kind, at) = PhysFault(kind, a)
  <1> DEFINE t == <<a, p>>
  <1>1. t # Fault /\ t[1] = a /\ t[2] = p
    BY MemAssumption DEF TestPa
  <1>2. FaultOf(kind, at) = IF PageFaults(kind, t) THEN {<<As(kind), "page">>} ELSE PhysFault(kind, t[1])
    BY DEF FaultOf
  <1>3. PageFaults(kind, t) <=> ~(Needs(kind) \subseteq p) \/ ("W" \in p /\ "R" \notin p)
    BY <1>1 DEF PageFaults
  <1> QED
    BY <1>1, <1>2, <1>3

-----------------------------------------------------------------------------
(* The invariant of the tests of virtual memory.                           *)

Placed(m, r, o) == IF o.op = "4K" THEN Find(m, r, o.page) = o.target
                   ELSE Middle(m, r, o.page).to = "page" /\ Middle(m, r, o.page).at = o.target
Absent(m, r, o) == IF o.op = "4K" THEN Find(m, r, o.page) = Fault
                   ELSE Middle(m, r, o.page).to = "none"

\* Below root r of memory m, of the mappings of test t the first n are made.
MapsMade(m, r, t, n) ==
  \A i \in 1..Maps[t] : IF i <= n THEN Placed(m, r, Text[t][i]) ELSE Absent(m, r, Text[t][i])

NoUserPage(m, r) == \A u \in UserVa : Find(m, r, u) = Fault

TablesInv ==
  /\ IF prog = "f" THEN Hp!IInv ELSE Sv39!IInv
  /\ IF enabled THEN satp = Kas ELSE step <= 5
  /\ \A s \in User : root[s] = 0
  /\ root[Kas] # 0 => MapsMade(mem, root[Kas], prog, step - 5) /\ NoUserPage(mem, root[Kas])

\* The operation that comes next.
LEMMA NextOperation ==
  ASSUME step \in Nat, NEW op, Runs(op)
  PROVE  /\ step >= 5 /\ step' = step + 1 /\ Operation = Text[prog][step - 4]
         /\ step - 4 \in 1..Len(Text[prog]) /\ Operation.op = op /\ prog \in Tests
         /\ prog # "c" => enabled
  <1>1. Len(BootCalls) = 5
    BY BootCallsValid
  <1>2. Len(Text[prog]) \in Nat
    <2>1. CASE prog = "c"
      <3>1. Text[prog] = TextC
        BY <2>1 DEF Text
      <3> QED
        BY <3>1, TextCIs, SMT
    <2>2. CASE prog # "c"
      <3>1. prog \in Sv39Tests
        BY <2>2 DEF Runs, Tests, Sv39Tests
      <3> QED
        BY <3>1, MapsFirst
    <2> QED
      BY <2>1, <2>2
  <1> QED
    BY <1>1, <1>2 DEF Runs, Supervisor, Operation

\* A test maps as it comes to the operation; an access finds all mappings made.
LEMMA WhichOperation ==
  ASSUME step \in Nat, NEW op, Runs(op), prog \in Sv39Tests
  PROVE  /\ op \in {"4K", "2M"} => step - 4 \in 1..Maps[prog]
         /\ op = "access" => step - 5 >= Maps[prog]
         /\ Maps[prog] \in Nat
  BY NextOperation, MapsFirst, SMT

LEMMA SameMaps ==
  ASSUME NEW m \in Nat, NEW n \in Nat, NEW k \in Nat,
         n = k \/ (k <= 5 /\ n <= 5) \/ (k - 5 >= m /\ n >= k)
  PROVE  \A i \in 1..m : (i <= n - 5) <=> (i <= k - 5)
  OBVIOUS

\* The tables do not change.
LEMMA TablesKept ==
  ASSUME prog \in Sv39Tests, TablesInv, UNCHANGED <<vars, prog>>, step \in Nat, step' \in Nat,
         step' = step \/ (step <= 5 /\ step' <= 5) \/ (enabled /\ step - 5 >= Maps[prog] /\ step' >= step)
  PROVE  TablesInv'
  <1>1. Maps[prog] \in Nat
    BY MapsFirst
  <1>2. /\ Hp!IInv => Hp!IInv'
        /\ Sv39!IInv => Sv39!IInv'
    <2>1. UNCHANGED Hp!vars /\ UNCHANGED Sv39!vars
      BY DEF vars, Hp!vars, Sv39!vars
    <2> QED
      BY <2>1, HpStep, Sv39Step
  <1>3. mem' = mem /\ root' = root /\ enabled' = enabled /\ satp' = satp /\ prog' = prog
    BY DEF vars
  <1>4. \A i \in 1..Maps[prog] : (i <= step' - 5) <=> (i <= step - 5)
    BY <1>1, SameMaps
  <1>5. MapsMade(mem', root'[Kas], prog, step' - 5) <=> MapsMade(mem, root[Kas], prog, step - 5)
    BY <1>3, <1>4 DEF MapsMade
  <1>6. IF enabled' THEN satp' = Kas ELSE step' <= 5
    BY <1>1, <1>3 DEF TablesInv
  <1> QED
    BY <1>2, <1>3, <1>5, <1>6 DEF TablesInv

LEMMA OperationPages ==
  ASSUME NEW t \in Sv39Tests, NEW i \in 1..Maps[t]
  PROVE  LET v == Text[t][i].page
         IN  v \in Vpn /\ \A u \in KernelVa \cup UserVa : Prefix(v) # Prefix(u) /\ v # u
  <1> DEFINE v == Text[t][i].page
  <1>1. \E j \in 1..5 : Prefix(v) = Prefix(Page[j]) /\ v \in Vpn
    <2>1. CASE t \in {"s", "g"}
      <3>1. v \in Small4K
        BY <2>1, SmallOps
      <3>2. CASE \E j \in 1..3 : v = Page[j]
        BY <3>2, MemAssumption
      <3>3. CASE \E j \in 1..Faults : v = FaultPage(j)
        BY <3>3, FaultPages
      <3> QED
        BY <3>1, <3>2, <3>3 DEF Small4K
    <2>2. CASE t = "f"
      <3>1. i \in 1..5 /\ v = Page[i]
        BY <2>2, HugeOps, SMT DEF Text
      <3> QED
        BY <3>1, MemAssumption
    <2> QED
      BY <2>1, <2>2 DEF Sv39Tests
  <1> HIDE DEF v
  <1>2. \A u \in KernelVa \cup UserVa : Prefix(v) # Prefix(u) /\ v # u
    BY <1>1, MemAssumption
  <1> QED
    BY <1>1, <1>2 DEF v

\* What the steps of _vme_init and of the tests are in the two uses of RvVme.
LEMMA SameSteps ==
  /\ KernelRoot => Sv39!KernelRoot /\ Hp!KernelRoot
  /\ \A v : MapSegment(v) => Sv39!MapSegment(v) /\ Hp!MapSegment(v)
  /\ Enable => Sv39!Enable /\ Hp!Enable
  /\ \A v, p : Becomes(Walk4K(Kas, v, p)) /\ enabled /\ used + 2 <= MaxTables
               /\ UNCHANGED <<root, todo, enabled, satp>>
                 => Sv39!MapExtra(v, p) /\ Hp!MapExtra(v, p)
  /\ \A h \in Idx \X Idx : \A p :
       Becomes(Walk2M(Kas, h, p)) /\ enabled /\ used + 1 <= MaxTables
       /\ UNCHANGED <<root, todo, enabled, satp>>
         => Hp!MapHuge(h, p)
  <1>1. KernelRoot => Sv39!KernelRoot /\ Hp!KernelRoot
    BY DEF KernelRoot, Sv39!KernelRoot, Hp!KernelRoot, Becomes, Sv39!Becomes, Hp!Becomes,
           NewPage, Sv39!NewPage, Hp!NewPage, WalkFrom, Sv39!WalkFrom, Hp!WalkFrom,
           Empty, Sv39!Empty, Hp!Empty, None, Sv39!None, Hp!None
  <1>2. \A v, p : Becomes(Walk4K(Kas, v, p)) =>
                    Sv39!Becomes(Sv39!Walk4K(Kas, v, p)) /\ Hp!Becomes(Hp!Walk4K(Kas, v, p))
    BY SameWalks, Zenon DEF Becomes, Sv39!Becomes, Hp!Becomes
  <1>3. \A v, p : Becomes(Walk2M(Kas, v, p)) => Hp!Becomes(Hp!Walk2M(Kas, v, p))
    BY SameWalks, Zenon DEF Becomes, Hp!Becomes
  <1>4. \A v : MapSegment(v) => Sv39!MapSegment(v) /\ Hp!MapSegment(v)
    BY <1>2, Zenon DEF MapSegment, Sv39!MapSegment, Hp!MapSegment
  <1>5. Enable => Sv39!Enable /\ Hp!Enable
    BY Zenon DEF Enable, Sv39!Enable, Hp!Enable
  <1>6. \A v, p : Becomes(Walk4K(Kas, v, p)) /\ enabled /\ used + 2 <= MaxTables
               /\ UNCHANGED <<root, todo, enabled, satp>>
                 => Sv39!MapExtra(v, p) /\ Hp!MapExtra(v, p)
    BY <1>2, Zenon DEF Sv39!MapExtra, Hp!MapExtra
  <1>7. \A h \in Idx \X Idx : \A p :
          Becomes(Walk2M(Kas, h, p)) /\ enabled /\ used + 1 <= MaxTables
          /\ UNCHANGED <<root, todo, enabled, satp>>
            => Hp!MapHuge(h, p)
    BY <1>3, Zenon DEF Hp!MapHuge
  <1> QED
    BY <1>1, <1>4, <1>5, <1>6, <1>7, Zenon

LEMMA NewTable ==
  ASSUME Sv39!IInv \/ Hp!IInv, KernelRoot
  PROVE  /\ root'[Kas] = used + 1 /\ \A s \in User : root'[s] = root[s]
         /\ \A v \in Vpn : /\ Find(mem', root'[Kas], v) = Fault
                           /\ Middle(mem', root'[Kas], v).to = "none"
  <1>1. /\ used < MaxTables /\ mem' = [mem EXCEPT ![used + 1] = Empty]
        /\ root' = [root EXCEPT ![Kas] = used + 1]
    BY DEF KernelRoot, Becomes, NewPage, WalkFrom
  <1>2. /\ used \in Nat /\ \E S : mem \in [Frame -> S]
        /\ \E S : root \in [Space -> S]
    <2>1. CASE Sv39!IInv
      <3>1. PICK P : Sv39!Shape(mem, used, P) /\ Sv39!Rooted(P)
        BY <2>1 DEF Sv39!IInv, Sv39!Good
      <3>2. used \in 0..MaxTables /\ mem \in Sv39!Memory
        BY <3>1 DEF Sv39!Shape
      <3>3. root \in [Sv39!Space -> 0..used]
        BY <3>1 DEF Sv39!Rooted
      <3>4. used \in Nat
        BY <3>2, VmeAssumption
      <3>5. mem \in [Frame -> [Idx -> Sv39!Entry]] /\ root \in [Space -> 0..used]
        BY <3>2, <3>3, Zenon DEF Sv39!Memory, Sv39!Frame, Frame, Sv39!Space, Space
      <3> QED
        BY <3>4, <3>5
    <2>2. CASE Hp!IInv
      <3>1. PICK P : Hp!Shape(mem, used, P) /\ Hp!Rooted(P)
        BY <2>2 DEF Hp!IInv, Hp!Good
      <3>2. used \in 0..MaxTables /\ mem \in Hp!Memory
        BY <3>1 DEF Hp!Shape
      <3>3. root \in [Hp!Space -> 0..used]
        BY <3>1 DEF Hp!Rooted
      <3>4. used \in Nat
        BY <3>2, VmeAssumption
      <3>5. mem \in [Frame -> [Idx -> Hp!Entry]] /\ root \in [Space -> 0..used]
        BY <3>2, <3>3, Zenon DEF Hp!Memory, Hp!Frame, Frame, Hp!Space, Space
      <3> QED
        BY <3>4, <3>5
    <2> QED
      BY <2>1, <2>2
  <1>3. used + 1 \in Frame /\ Kas \in Space /\ User \subseteq Space /\ Kas \notin User
    BY <1>1, <1>2, VmeAssumption DEF Frame, Space
  <1>4. mem'[used + 1] = Empty /\ root'[Kas] = used + 1
    BY <1>1, <1>2, <1>3
  <1>5. \A s \in User : root'[s] = root[s]
    BY <1>1, <1>2, <1>3
  <1>6. ASSUME NEW v \in Vpn
        PROVE  /\ Find(mem', used + 1, v) = Fault
               /\ Middle(mem', used + 1, v).to = "none"
    <2>1. v[1] \in Idx
      BY DEF Vpn
    <2>2. mem'[used + 1][v[1]].to = "none"
      BY <1>4, <2>1, EntryFacts
    <2> QED
      BY <2>2 DEF Find, Middle
  <1> QED
    BY <1>4, <1>5, <1>6

\* A step changes nothing about mapping o of a test.
Undisturbed(o) ==
  /\ Placed(mem, root[Kas], o) => Placed(mem', root'[Kas], o)
  /\ Absent(mem, root[Kas], o) => Absent(mem', root'[Kas], o)

LEMMA Leaves ==
  ASSUME NEW o, root' = root
  PROVE  /\ o.op = "4K" /\ Find(mem', root[Kas], o.page) = Find(mem, root[Kas], o.page) => Undisturbed(o)
         /\ o.op # "4K" /\ KeepsMiddle(mem, root[Kas], o.page, mem') => Undisturbed(o)
  BY DEF Undisturbed, Placed, Absent, KeepsMiddle

\* A walk of _vme_init.
LEMMA SegmentLeaves ==
  ASSUME prog \in Sv39Tests, TablesInv, root[Kas] # 0, NEW v \in KernelVa, MapSegment(v)
  PROVE  /\ \A i \in 1..Maps[prog] : Undisturbed(Text[prog][i])
         /\ NoUserPage(mem', root'[Kas])
  <1>1. used + 2 <= MaxTables /\ Becomes(Walk4K(Kas, v, v)) /\ root' = root
    BY DEF MapSegment
  <1>2. Adds(v, v)
    BY <1>1, Sv39Adds, HpAdds DEF TablesInv
  <1>3. NoUserPage(mem', root'[Kas])
    <2>1. \A u \in UserVa : u \in Vpn /\ u # v
      BY VmeAssumption
    <2> QED
      BY <1>1, <1>2, <2>1 DEF TablesInv, NoUserPage, Adds
  <1>4. ASSUME NEW i \in 1..Maps[prog]
        PROVE  Undisturbed(Text[prog][i])
    <2> DEFINE o == Text[prog][i]
    <2>1. o.page \in Vpn /\ o.page # v /\ Prefix(o.page) # Prefix(v)
      BY OperationPages
    <2>2. prog \in {"s", "g"} => o.op = "4K"
      BY SmallOps
    <2> HIDE DEF o
    <2>3. CASE o.op = "4K"
      <3>1. Find(mem', root[Kas], o.page) = Find(mem, root[Kas], o.page)
        BY <1>2, <2>1 DEF Adds
      <3> QED
        BY <1>1, <2>3, <3>1, Leaves, Zenon DEF o
    <2>4. CASE o.op # "4K"
      <3>1. prog = "f"
        BY <2>2, <2>4 DEF Sv39Tests
      <3>2. KeepsMiddle(mem, root[Kas], o.page, mem')
        BY <1>1, <2>1, <3>1, HpAdds DEF TablesInv
      <3> QED
        BY <1>1, <2>4, <3>2, Leaves, Zenon DEF o
    <2> QED
      BY <2>3, <2>4
  <1> QED
    BY <1>3, <1>4

LEMMA VmeInitStep ==
  ASSUME prog \in Sv39Tests, TablesInv, step \in Nat, VmeInit
  PROVE  TablesInv'
  <1>1. /\ UNCHANGED <<prog, step>> /\ ~enabled /\ step = 5
        /\ KernelRoot \/ Enable \/ \E v \in KernelVa : MapSegment(v)
    BY BootCallsValid DEF VmeInit, Supervisor, tests, TablesInv
  <1>2. IF prog = "f" THEN Hp!IInv' ELSE Sv39!IInv'
    <2>1. Sv39!Next /\ Hp!Next
      <3>1. CASE KernelRoot
        BY <3>1, SameSteps, Zenon DEF Sv39!Next, Hp!Next
      <3>2. CASE Enable
        BY <3>2, SameSteps, Zenon DEF Sv39!Next, Hp!Next
      <3>3. CASE \E v \in KernelVa : MapSegment(v)
        BY <3>3, SameSteps, Zenon DEF Sv39!Next, Hp!Next
      <3> QED
        BY <1>1, <3>1, <3>2, <3>3
    <2> QED
      BY <2>1, Sv39Step, HpStep DEF TablesInv
  <1>3. CASE KernelRoot
    <2>1. /\ \A s \in User : root'[s] = root[s]
          /\ \A v \in Vpn : /\ Find(mem', root'[Kas], v) = Fault
                            /\ Middle(mem', root'[Kas], v).to = "none"
      BY <1>3, NewTable DEF TablesInv
    <2>2. enabled' = enabled
      BY <1>3 DEF KernelRoot
    <2>3. \A i \in 1..Maps[prog] : Absent(mem', root'[Kas], Text[prog][i])
      BY <1>1, <2>1, OperationPages DEF Absent
    <2>4. NoUserPage(mem', root'[Kas])
      BY <2>1, VmeAssumption DEF NoUserPage
    <2>5. \A i \in 1..Maps[prog] : ~(i <= step - 5)
      BY <1>1
    <2>6. MapsMade(mem', root'[Kas], prog, step' - 5)
      BY <1>1, <2>3, <2>5 DEF MapsMade
    <2> QED
      BY <1>1, <1>2, <2>1, <2>2, <2>4, <2>6 DEF TablesInv
  <1>4. CASE Enable
    <2>1. UNCHANGED <<mem, root>> /\ enabled' = TRUE /\ satp' = Kas
      BY <1>4 DEF Enable
    <2> QED
      BY <1>1, <1>2, <2>1 DEF TablesInv
  <1>5. CASE \E v \in KernelVa : MapSegment(v)
    <2>1. PICK v \in KernelVa : MapSegment(v)
      BY <1>5
    <2>2. root[Kas] # 0 /\ UNCHANGED <<root, enabled>>
      BY <2>1 DEF MapSegment
    <2>3. /\ \A i \in 1..Maps[prog] : Undisturbed(Text[prog][i])
          /\ NoUserPage(mem', root'[Kas])
      BY <2>1, <2>2, SegmentLeaves
    <2>4. MapsMade(mem', root'[Kas], prog, step' - 5)
      BY <1>1, <2>2, <2>3 DEF TablesInv, MapsMade, Undisturbed
    <2> QED
      BY <1>1, <1>2, <2>2, <2>3, <2>4 DEF TablesInv
  <1> QED
    BY <1>1, <1>3, <1>4, <1>5

LEMMA EnabledTables ==
  ASSUME TablesInv, enabled
  PROVE  satp = Kas /\ root[Kas] # 0
  <1>1. KernelStays
    BY TestKernelThere DEF TablesInv
  <1> QED
    BY <1>1 DEF TablesInv, KernelStays

\* An operation that maps makes the next mapping and disturbs no other.
LEMMA NextMapping ==
  ASSUME prog \in Sv39Tests, TablesInv, step \in Nat, step - 4 \in 1..Maps[prog],
         root[Kas] # 0, UNCHANGED <<root, enabled, satp, prog>>, enabled, step' = step + 1,
         Absent(mem, root[Kas], Text[prog][step - 4]) =>
           Placed(mem', root'[Kas], Text[prog][step - 4]),
         \A i \in 1..Maps[prog] : i # step - 4 => Undisturbed(Text[prog][i]),
         NoUserPage(mem', root'[Kas]), IF prog = "f" THEN Hp!IInv' ELSE Sv39!IInv'
  PROVE  TablesInv'
  <1> DEFINE k == step - 4
  <1>1. k \in Nat /\ step - 5 = k - 1 /\ step' - 5 = k /\ Maps[prog] \in Nat
    BY MapsFirst
  <1>2. MapsMade(mem, root[Kas], prog, k - 1)
    BY <1>1 DEF TablesInv
  <1> HIDE DEF k
  <1>3. \A i \in 1..Maps[prog] : /\ i # k => ((i <= k - 1) <=> (i <= k))
                                 /\ i = k => i <= k /\ ~(i <= k - 1)
    BY <1>1
  <1>4. MapsMade(mem', root'[Kas], prog, k)
    BY <1>2, <1>3 DEF MapsMade, Undisturbed, k
  <1> QED
    BY <1>1, <1>4 DEF TablesInv

LEMMA MapStep ==
  ASSUME prog \in Sv39Tests, TablesInv, step \in Nat, Map
  PROVE  TablesInv'
  <1> DEFINE k == step - 4
             o == Text[prog][k]
  <1>1. /\ k \in 1..Maps[prog] /\ o.op = "4K" /\ enabled /\ root[Kas] # 0 /\ step' = step + 1
        /\ used + 2 <= MaxTables /\ Becomes(Walk4K(Kas, o.page, o.target))
        /\ UNCHANGED <<root, todo, enabled, satp, prog>>
    <2>1. Runs("4K")
      BY DEF Map
    <2>2. /\ Operation = o /\ o.op = "4K" /\ step' = step + 1 /\ enabled
      BY <2>1, NextOperation DEF Sv39Tests
    <2>3. k \in 1..Maps[prog]
      BY <2>1, WhichOperation
    <2> QED
      BY <2>2, <2>3, EnabledTables DEF Map
  <1>2. /\ prog \in {"s", "g"} => o.page \in Small4K /\ o.target \in TestPa
        /\ prog = "f" => k = 1 /\ o.page = Page[1] /\ o.target \in TestPa
    <2>1. prog \in {"s", "g"} => o.page \in Small4K /\ o.target \in TestPa
      BY <1>1, SmallOps
    <2>2. ASSUME prog = "f"
          PROVE  k = 1 /\ o.page = Page[1] /\ o.target \in TestPa
      <3>1. Text[prog] = TextF /\ Maps[prog] = 5
        BY <2>2, HugeOps DEF Text
      <3>2. k = 1 \/ k \in 2..5
        BY <1>1, <3>1
      <3>3. k \notin 2..5
        BY <1>1, <3>1, HugeOps
      <3> QED
        BY <3>1, <3>2, <3>3, HugeOps
    <2> QED
      BY <2>1, <2>2
  <1>3. o.page \in Vpn /\ \A u \in KernelVa \cup UserVa : o.page # u
    BY <1>1, OperationPages
  <1>4. \A i \in 1..Maps[prog] : /\ Text[prog][i].page \in Vpn
                                 /\ prog \in {"s", "g"} => Text[prog][i].op = "4K"
                                 /\ prog \in {"s", "g"} /\ i # k => Text[prog][i].page # o.page
                                 /\ prog = "f" /\ i # k => Text[prog][i].op = "2M"
                                 /\ prog = "f" /\ i # k => Prefix(Text[prog][i].page) # Prefix(o.page)
    <2> SUFFICES ASSUME NEW i \in 1..Maps[prog]
                 PROVE  /\ Text[prog][i].page \in Vpn
                        /\ prog \in {"s", "g"} => Text[prog][i].op = "4K"
                        /\ prog \in {"s", "g"} /\ i # k => Text[prog][i].page # o.page
                        /\ prog = "f" /\ i # k => Text[prog][i].op = "2M"
                        /\ prog = "f" /\ i # k => Prefix(Text[prog][i].page) # Prefix(o.page)
      OBVIOUS
    <2>1. CASE prog \in {"s", "g"}
      BY <1>1, <2>1, SmallOps, OperationPages
    <2>2. CASE prog = "f"
      <3>1. Text[prog] = TextF /\ Maps[prog] = 5
        BY <2>2, HugeOps DEF Text
      <3>2. TextF[i].page = Page[i] /\ (i # 1 => TextF[i].op = "2M")
        BY <3>1, HugeOps
      <3>3. i # 1 => Prefix(Page[i]) # Prefix(Page[1])
        BY <3>1, MemAssumption
      <3> QED
        BY <1>2, <2>2, <3>1, <3>2, <3>3, OperationPages
    <2> QED
      BY <2>1, <2>2 DEF Sv39Tests
  <1> HIDE DEF o, k
  <1>5. /\ Adds(o.page, o.target)
        /\ prog = "f" => \A u \in Vpn : Prefix(u) # Prefix(o.page) => KeepsMiddle(mem, root[Kas], u, mem')
    BY <1>1, <1>2, Sv39Adds, HpAdds DEF TablesInv, Sv39Tests
  <1>6. IF prog = "f" THEN Hp!IInv' ELSE Sv39!IInv'
    <2>1. Sv39!MapExtra(o.page, o.target) /\ Hp!MapExtra(o.page, o.target)
      BY <1>1, SameSteps
    <2>2. IF prog = "f" THEN Hp!Next ELSE Sv39!Next
      BY <1>2, <2>1, Zenon DEF Sv39!Next, Hp!Next, Sv39Tests
    <2> QED
      BY <2>2, Sv39Step, HpStep DEF TablesInv
  <1>7. NoUserPage(mem', root'[Kas])
    BY <1>1, <1>3, <1>5, VmeAssumption DEF TablesInv, NoUserPage, Adds
  <1>8. ASSUME NEW i \in 1..Maps[prog], i # k
        PROVE  Undisturbed(Text[prog][i])
    <2>1. CASE prog \in {"s", "g"}
      <3>1. Find(mem', root[Kas], Text[prog][i].page) = Find(mem, root[Kas], Text[prog][i].page)
        BY <1>4, <1>5, <1>8, <2>1 DEF Adds
      <3> QED
        BY <1>1, <1>4, <2>1, <3>1, Leaves, Zenon
    <2>2. CASE prog = "f"
      <3>1. KeepsMiddle(mem, root[Kas], Text[prog][i].page, mem') /\ Text[prog][i].op # "4K"
        BY <1>4, <1>5, <1>8, <2>2
      <3> QED
        BY <1>1, <3>1, Leaves, Zenon
    <2> QED
      BY <2>1, <2>2 DEF Sv39Tests
  <1>9. Absent(mem, root[Kas], o) => Placed(mem', root'[Kas], o)
    BY <1>1, <1>5 DEF Absent, Placed, Adds
  <1> QED
    BY <1>1, <1>6, <1>7, <1>8, <1>9, NextMapping DEF k, o

LEMMA MapMegaStep ==
  ASSUME prog \in Sv39Tests, TablesInv, step \in Nat, MapMega
  PROVE  TablesInv'
  <1> DEFINE k == step - 4
             o == Text[prog][k]
             h == Prefix(o.page)
  <1>1. /\ k \in 1..Maps[prog] /\ o.op = "2M" /\ enabled /\ root[Kas] # 0 /\ step' = step + 1
        /\ used + 1 <= MaxTables /\ Becomes(Walk2M(Kas, h, o.target))
        /\ UNCHANGED <<root, todo, enabled, satp, prog>>
    <2>1. Runs("2M")
      BY DEF MapMega
    <2>2. Operation = o /\ o.op = "2M" /\ step' = step + 1 /\ enabled
      BY <2>1, NextOperation DEF Sv39Tests
    <2>3. k \in 1..Maps[prog]
      BY <2>1, WhichOperation
    <2> QED
      BY <2>2, <2>3, EnabledTables DEF MapMega
  <1>2. prog = "f" /\ Text[prog] = TextF /\ Maps[prog] = 5
    <2>1. prog = "f"
      BY <1>1, SmallOps DEF Sv39Tests
    <2> QED
      BY <2>1, HugeOps DEF Text
  <1>3. k \in 2..5 /\ o.page = Page[k] /\ h \in Mega /\ o.target \in TestPa
    <2>1. k # 1
      BY <1>1, <1>2, HugeOps
    <2>2. k \in 2..5
      BY <1>1, <1>2, <2>1
    <2> QED
      BY <1>2, <2>2, HugeOps
  <1>4. \A i \in 1..5 : /\ TextF[i].page = Page[i] /\ Page[i] \in Vpn
                        /\ i = 1 => TextF[i].op = "4K" /\ Prefix(Page[i]) \notin Mega
                        /\ i # 1 => TextF[i].op = "2M"
                        /\ i # k => Prefix(Page[i]) # h
    <2>1. \A i \in 1..5 : TextF[i].page = Page[i] /\ Page[i] \in Vpn
      BY HugeOps, MemAssumption
    <2>2. TextF[1].op = "4K" /\ \A i \in 2..5 : TextF[i].op = "2M"
      BY HugeOps
    <2>3. Prefix(Page[1]) \notin Mega
      BY MemAssumption DEF Mega
    <2>4. \A i \in 1..5 : i # k => Prefix(Page[i]) # h
      BY <1>3, MemAssumption
    <2> QED
      BY <2>1, <2>2, <2>3, <2>4
  <1>5. \A u \in KernelVa \cup UserVa : u \in Vpn /\ Prefix(u) \notin Mega
    BY VmeAssumption, MemAssumption DEF Mega
  <1>6. h \in Idx \X Idx
    BY <1>3, <1>4 DEF Prefix, Vpn
  <1> HIDE DEF h, o, k
  <1>7. HugeAdds(h, o.target)
    BY <1>1, <1>2, <1>3, HpHugeAdds DEF TablesInv
  <1>8. Hp!IInv'
    <2>1. Hp!MapHuge(h, o.target)
      BY <1>1, <1>6, SameSteps
    <2>2. Hp!Next
      BY <1>3, <2>1, Zenon DEF Hp!Next
    <2> QED
      BY <1>2, <2>2, HpStep DEF TablesInv
  <1>9. NoUserPage(mem', root'[Kas])
    BY <1>1, <1>5, <1>7 DEF TablesInv, NoUserPage, HugeAdds
  <1>10. ASSUME NEW i \in 1..Maps[prog], i # k
         PROVE  Undisturbed(Text[prog][i])
    <2>1. CASE i = 1
      <3>1. Find(mem', root[Kas], TextF[i].page) = Find(mem, root[Kas], TextF[i].page)
        BY <1>2, <1>4, <1>7, <2>1 DEF HugeAdds
      <3> QED
        BY <1>1, <1>2, <1>4, <2>1, <3>1, Leaves, Zenon
    <2>2. CASE i # 1
      <3>1. KeepsMiddle(mem, root[Kas], TextF[i].page, mem')
        BY <1>2, <1>4, <1>7, <1>10 DEF HugeAdds
      <3>2. TextF[i].op # "4K"
        BY <1>2, <1>4, <2>2
      <3> QED
        BY <1>1, <1>2, <3>1, <3>2, Leaves, Zenon
    <2> QED
      BY <2>1, <2>2
  <1>11. Absent(mem, root[Kas], o) => Placed(mem', root'[Kas], o)
    <2>1. o.page \in Vpn /\ Prefix(o.page) = h
      BY <1>3, <1>4 DEF h
    <2> QED
      BY <1>1, <1>7, <2>1 DEF Absent, Placed, HugeAdds
  <1> QED
    BY <1>1, <1>2, <1>8, <1>9, <1>10, <1>11, NextMapping DEF k, o

\* All steps of MemTest.
LEMMA TablesStep ==
  ASSUME prog \in Sv39Tests, TablesInv, step \in Nat, [MemNext]_allvars
  PROVE  TablesInv'
  <1>1. CASE VmeInit
    BY <1>1, VmeInitStep
  <1>2. CASE Map
    BY <1>2, MapStep
  <1>3. CASE MapMega
    BY <1>3, MapMegaStep
  <1>4. CASE Sv39Access
    <2>1. Runs("access") /\ UNCHANGED <<vars, prog>>
      BY <1>4 DEF Sv39Access
    <2>2. step - 5 >= Maps[prog] /\ step' = step + 1 /\ enabled
      BY <2>1, NextOperation, WhichOperation DEF Sv39Tests
    <2>3. step' \in Nat /\ step' >= step
      BY <2>2
    <2> QED
      BY <2>1, <2>2, <2>3, TablesKept
  <1>5. CASE BootPmp
    <2>1. UNCHANGED <<vars, prog>> /\ step < 5 /\ step' = step + 1
      BY <1>5, BootCallsValid DEF BootPmp
    <2> QED
      BY <2>1, TablesKept
  <1>6. CASE PmpReset \/ UNCHANGED allvars
    <2>1. UNCHANGED <<vars, prog>> /\ step' = step
      BY <1>6 DEF PmpReset, tests, allvars
    <2> QED
      BY <2>1, TablesKept
  <1>7. ~Machine /\ ~AnyVme /\ ~PmpAccess
    BY DEF Machine, AnyVme, PmpAccess, Sv39Tests
  <1> QED
    BY <1>1, <1>2, <1>3, <1>4, <1>5, <1>6, <1>7 DEF MemNext

-----------------------------------------------------------------------------
(* Every access of a test ends with the faults that it awaits.             *)

\* A test of virtual memory that has made its mappings.
Ready == /\ PmpInv /\ BootInv /\ TablesInv
         /\ prog \in Sv39Tests /\ step \in Nat /\ step >= 5 /\ enabled
         /\ step - 5 >= Maps[prog]

LEMMA PageFound ==
  ASSUME Ready, NEW i \in 1..Maps[prog]
  PROVE  Lookup(satp, Text[prog][i].page) = Text[prog][i].target
  <1> DEFINE o == Text[prog][i]
  <1>1. satp = Kas /\ root[Kas] # 0
    BY EnabledTables DEF Ready
  <1>2. Placed(mem, root[Kas], o)
    <2>1. Maps[prog] \in Nat
      BY MapsFirst DEF Ready
    <2>2. i <= step - 5
      BY <2>1 DEF Ready
    <2> QED
      BY <1>1, <2>2 DEF Ready, TablesInv, MapsMade
  <1>3. o.page \in Vpn /\ (o.op # "4K" => prog = "f")
    BY OperationPages, SmallOps DEF Ready, Sv39Tests
  <1> HIDE DEF o
  <1>4. Find(mem, root[Kas], o.page) = o.target
    <2>1. CASE o.op = "4K"
      BY <1>2, <2>1 DEF Placed
    <2>2. CASE o.op # "4K"
      BY <1>1, <1>2, <1>3, <2>2, HpMiddleFinds DEF Placed, Ready, TablesInv
    <2> QED
      BY <2>1, <2>2
  <1>5. Lookup(Kas, o.page) = Find(mem, root[Kas], o.page)
    BY <1>1, <1>3, TestLookup DEF Ready, TablesInv
  <1> QED
    BY <1>1, <1>4, <1>5 DEF o

\* An access through a page, by the permissions p of the page.
LEMMA PageAccess ==
  ASSUME Ready, NEW v, NEW a \in Nat, NEW p \in SUBSET Perm, Lookup(satp, v) = <<a, p>>
  PROVE  /\ a \in {\h20008000, \h20080000} =>
              /\ "R" \in p => FaultOf("load", v) = {}
              /\ "R" \in p /\ "W" \in p => FaultOf("store", v) = {}
         /\ "R" \notin p => FaultOf("load", v) = {LoadPage}
         /\ "R" \notin p \/ "W" \notin p =>
              FaultOf("store", v) = {StorePage} /\ FaultOf("amo", v) = {StorePage}
         /\ a \in {\h2c000000, Far} /\ "R" \in p /\ "W" \in p =>
              FaultOf("load", v) = {LoadGuard} /\ FaultOf("store", v) = {StoreGuard}
         /\ a = \h2c000000 /\ "R" \in p /\ "W" \in p => FaultOf("amo", v) = {StoreGuard}
  <1> DEFINE Bars(kind) == ~(Needs(kind) \subseteq p) \/ ("W" \in p /\ "R" \notin p)
  <1>1. ASSUME NEW kind \in {"load", "store", "amo"}
        PROVE  /\ Bars(kind) => FaultOf(kind, v) = {<<As(kind), "page">>}
               /\ ~Bars(kind) => FaultOf(kind, v) = PhysFault(kind, a)
    <2>1. <<a, p>> \in TestPa
      BY DEF TestPa
    <2> QED
      BY <2>1, Translated DEF Ready
  <1>2. /\ Bars("load") <=> "R" \notin p
        /\ Bars("store") <=> ("R" \notin p \/ "W" \notin p)
        /\ Bars("amo") <=> ("R" \notin p \/ "W" \notin p)
    BY DEF Needs
  <1>3. /\ {<<As("load"), "page">>} = {LoadPage} /\ {<<As("store"), "page">>} = {StorePage}
        /\ {<<As("amo"), "page">>} = {StorePage}
    BY DEF As, LoadPage, StorePage
  <1> HIDE DEF Bars
  <1>4. prog # "machine"
    BY DEF Ready, Sv39Tests
  <1>5. /\ \A kind \in {"load", "store"} :
             /\ \A x \in {\h20008000, \h20080000} : PhysFault(kind, x) = {}
             /\ \A x \in {\h2c000000, Far} : PhysFault(kind, x) = Refused(kind)
        /\ PhysFault("amo", \h2c000000) = Refused("amo")
    BY <1>4, BootFaults, SMT DEF Ready
  <1> QED
    BY <1>1, <1>2, <1>3, <1>5, Refusals, SMT

Ends(o) == FaultOf(o.kind, o.at) = o.due

LEMMA AccessEnds ==
  \A kind, at, f :
    /\ FaultOf(kind, at) = {} => Ends(Fine(kind, at))
    /\ FaultOf(kind, at) = {f} => Ends(Bad(kind, at, f)) /\ \A look : Ends(Access(kind, at, {f}, look))
  BY DEF Ends, Fine, Bad, Access

LEMMA EndsS ==
  ASSUME Ready, prog = "s", NEW k \in 4..8
  PROVE  Ends(TextS[k])
  <1>1. Text[prog] = TextS /\ Maps[prog] = 3
    BY DEF Text, Maps
  <1>2. /\ TextS[1].page = Page[1] /\ TextS[1].target = <<\h20008000, {"R"}>>
        /\ TextS[2].page = Page[2] /\ TextS[2].target = <<\h20008000, {"R", "W"}>>
        /\ TextS[3].page = Page[3] /\ TextS[3].target = <<\h20008000, {}>>
    BY TextSIs, SMT DEF MapOp
  <1>3. /\ Lookup(satp, TextS[1].page) = TextS[1].target
        /\ Lookup(satp, TextS[2].page) = TextS[2].target
        /\ Lookup(satp, TextS[3].page) = TextS[3].target
    BY <1>1, PageFound
  <1>4. /\ Lookup(satp, Page[1]) = <<\h20008000, {"R"}>>
        /\ Lookup(satp, Page[2]) = <<\h20008000, {"R", "W"}>>
        /\ Lookup(satp, Page[3]) = <<\h20008000, {}>>
    BY <1>2, <1>3, SMT
  <1>5. {"R"} \in SUBSET Perm /\ {"R", "W"} \in SUBSET Perm /\ {} \in SUBSET Perm
    BY DEF Perm
  <1>6. FaultOf("load", Page[1]) = {}
    BY <1>4, <1>5, PageAccess, SMT
  <1>7. FaultOf("store", Page[2]) = {}
    BY <1>4, <1>5, PageAccess, SMT
  <1>8. FaultOf("load", Page[3]) = {LoadPage} /\ FaultOf("store", Page[3]) = {StorePage}
    BY <1>4, <1>5, PageAccess, SMT
  <1>9. /\ Ends(TextS[4]) /\ Ends(TextS[5]) /\ Ends(TextS[6]) /\ Ends(TextS[7]) /\ Ends(TextS[8])
    BY <1>6, <1>7, <1>8, AccessEnds, TextSIs, SMT
  <1>10. k = 4 \/ k = 5 \/ k = 6 \/ k = 7 \/ k = 8
    OBVIOUS
  <1> QED
    BY <1>9, <1>10

LEMMA EndsF ==
  ASSUME Ready, prog = "f", NEW k \in 6..18
  PROVE  Ends(TextF[k])
  <1>1. Text[prog] = TextF /\ Maps[prog] = 5
    BY HugeOps DEF Text
  <1>2. /\ TextF[1].page = Page[1] /\ TextF[1].target = <<\h20080000, {"R"}>>
        /\ TextF[2].page = Page[2] /\ TextF[2].target = <<\h20080000, {"R", "W"}>>
        /\ TextF[3].page = Page[3] /\ TextF[3].target = <<\h20080000, {"R"}>>
        /\ TextF[4].page = Page[4] /\ TextF[4].target = <<\h20080000, {"W"}>>
        /\ TextF[5].page = Page[5] /\ TextF[5].target = <<\h2c000000, {"R", "W"}>>
    BY TextFIs, SMT DEF MapOp
  <1>3. /\ Lookup(satp, TextF[1].page) = TextF[1].target
        /\ Lookup(satp, TextF[2].page) = TextF[2].target
        /\ Lookup(satp, TextF[3].page) = TextF[3].target
        /\ Lookup(satp, TextF[4].page) = TextF[4].target
        /\ Lookup(satp, TextF[5].page) = TextF[5].target
    BY <1>1, PageFound
  <1>4. /\ Lookup(satp, Page[1]) = <<\h20080000, {"R"}>>
        /\ Lookup(satp, Page[2]) = <<\h20080000, {"R", "W"}>>
        /\ Lookup(satp, Page[3]) = <<\h20080000, {"R"}>>
        /\ Lookup(satp, Page[4]) = <<\h20080000, {"W"}>>
        /\ Lookup(satp, Page[5]) = <<\h2c000000, {"R", "W"}>>
    BY <1>2, <1>3, SMT
  <1>5. {"R"} \in SUBSET Perm /\ {"R", "W"} \in SUBSET Perm /\ {"W"} \in SUBSET Perm
    BY DEF Perm
  <1>6. FaultOf("load", Page[1]) = {}
    BY <1>4, <1>5, PageAccess, SMT
  <1>7. FaultOf("store", Page[2]) = {} /\ FaultOf("load", Page[2]) = {}
    BY <1>4, <1>5, PageAccess, SMT
  <1>8. FaultOf("store", Page[3]) = {StorePage} /\ FaultOf("amo", Page[3]) = {StorePage}
    BY <1>4, <1>5, PageAccess, SMT
  <1>9. FaultOf("load", Page[4]) = {LoadPage}
    BY <1>4, <1>5, PageAccess, SMT
  <1>10. /\ FaultOf("load", Page[5]) = {LoadGuard} /\ FaultOf("store", Page[5]) = {StoreGuard}
         /\ FaultOf("amo", Page[5]) = {StoreGuard}
    BY <1>4, <1>5, PageAccess, SMT
  <1>11. \A i \in {6, 11, 14, 7, 8} : Ends(TextF[i])
    BY <1>6, <1>7, AccessEnds, TextFIs, SMT
  <1>12. \A i \in {9, 10, 16, 15} : Ends(TextF[i])
    BY <1>8, <1>9, AccessEnds, TextFIs, SMT
  <1>13. \A i \in {12, 13, 18, 17} : Ends(TextF[i])
    BY <1>10, AccessEnds, TextFIs, SMT
  <1>14. k \in {6, 11, 14, 7, 8} \/ k \in {9, 10, 16, 15} \/ k \in {12, 13, 18, 17}
    OBVIOUS
  <1> QED
    BY <1>11, <1>12, <1>13, <1>14

LEMMA EndsC ==
  ASSUME PmpInv, BootInv, prog = "c", step \in Nat, step >= 5, ~enabled, NEW k \in 1..11
  PROVE  Ends(TextC[k])
  <1>1. \A kind, a : FaultOf(kind, a) = PhysFault(kind, a)
    BY DEF FaultOf
  <1>2. /\ \A kind \in {"load", "store"} :
             /\ PhysFault(kind, \h28000000) = {}
             /\ \A a \in {\h24000010, \h2c000010, \h2c004000} : PhysFault(kind, a) = Refused(kind)
        /\ \A a \in {\h2c000010, \h2c001000, \h2c002000} : PhysFault("amo", a) = Refused("amo")
    BY BootFaults, SMT
  <1>3. Ends(Fine("store", \h28000000))
    <2>1. FaultOf("store", \h28000000) = {}
      BY <1>1, <1>2, SMT
    <2> QED
      BY <2>1, SMT DEF Ends, Fine, Access
  <1>4. \A a \in {\h24000010, \h2c000010, \h2c004000} :
          Ends(Bad("store", a, StoreGuard)) /\ Ends(Bad("load", a, LoadGuard))
    BY <1>1, <1>2, Refusals, AccessEnds, SMT
  <1>5. \A a \in {\h2c000010, \h2c001000, \h2c002000} : Ends(Bad("amo", a, StoreGuard))
    BY <1>1, <1>2, Refusals, AccessEnds, SMT
  <1>6. \A i \in {1, 2, 3, 8, 4, 5, 7} : Ends(TextC[i])
    BY <1>3, <1>4, TextCIs, SMT
  <1>7. \A i \in {6, 9, 10, 11} : Ends(TextC[i])
    BY <1>4, <1>5, TextCIs, SMT
  <1>8. k \in {1, 2, 3, 8, 4, 5, 7} \/ k \in {6, 9, 10, 11}
    OBVIOUS
  <1> QED
    BY <1>6, <1>7, <1>8

LEMMA EndsG ==
  ASSUME Ready, prog = "g", NEW k \in (Faults + 3)..(4 * Faults + 4)
  PROVE  Ends(TextG[k])
  <1>1. Text[prog] = TextG /\ Maps[prog] = Faults + 2 /\ Faults \in Nat
    BY TextGIs DEF Text, Maps
  <1>2. /\ TextG[1].page = Page[1] /\ TextG[1].target = <<\h20008000, {"R", "W"}>>
        /\ TextG[2].page = Page[2] /\ TextG[2].target = <<\h20008000, {"R", "W"}>>
    BY TextGIs, SMT DEF MapOp
  <1>3. /\ Lookup(satp, TextG[1].page) = TextG[1].target
        /\ Lookup(satp, TextG[2].page) = TextG[2].target
    BY <1>1, PageFound
  <1>4. /\ Lookup(satp, Page[1]) = <<\h20008000, {"R", "W"}>>
        /\ Lookup(satp, Page[2]) = <<\h20008000, {"R", "W"}>>
    BY <1>2, <1>3, SMT
  <1>5. {"R", "W"} \in SUBSET Perm /\ Far \in Nat
    BY AllOnesType DEF Perm, Far
  <1>6. FaultOf("load", Page[1]) = {} /\ FaultOf("store", Page[2]) = {}
    BY <1>4, <1>5, PageAccess, SMT
  <1>7. ASSUME NEW j \in 1..Faults
        PROVE  /\ FaultOf("load", FaultPage(j)) = {LoadGuard}
               /\ FaultOf("store", FaultPage(j)) = {StoreGuard}
    <2>1. TextG[j + 2] = FarOp(j) /\ j + 2 \in 1..Maps[prog]
      BY <1>1, TextGIs, SMT
    <2>2. Lookup(satp, TextG[j + 2].page) = TextG[j + 2].target
      BY <1>1, <2>1, PageFound
    <2>3. Lookup(satp, FaultPage(j)) = <<Far, {"R", "W"}>>
      BY <2>1, <2>2 DEF FarOp
    <2> QED
      BY <1>5, <2>3, PageAccess, SMT
  <1>8. ASSUME NEW i \in 1..(3 * Faults)
        PROVE  Ends(RoundOp(i))
    <2> DEFINE j == (i + 2) \div 3
    <2>1. j \in 1..Faults
      BY <1>1
    <2>2. i % 3 = 0 \/ i % 3 = 1 \/ i % 3 = 2
      BY <1>1
    <2> HIDE DEF j
    <2>3. /\ Ends(Bad("store", FaultPage(j), StoreGuard)) /\ Ends(Bad("load", FaultPage(j), LoadGuard))
          /\ Ends(Fine("store", Page[2]))
      BY <1>6, <1>7, <2>1, AccessEnds
    <2> QED
      BY <2>2, <2>3, SMT DEF RoundOp, j
  <1>9. Ends(Fine("store", Page[2])) /\ Ends(Fine("load", Page[1]))
    BY <1>6, AccessEnds
  <1>10. CASE k = Faults + 3
    <2>1. TextG[k] = Fine("store", Page[2])
      BY <1>10, TextGIs, SMT
    <2> QED
      BY <1>9, <2>1
  <1>11. CASE k = Faults + 4
    <2>1. TextG[k] = Fine("load", Page[1])
      BY <1>11, TextGIs, SMT
    <2> QED
      BY <1>9, <2>1
  <1>12. CASE k >= Faults + 5
    <2>1. k - Faults - 4 \in 1..(3 * Faults) /\ k = Faults + 4 + (k - Faults - 4)
      BY <1>1, <1>12
    <2>2. TextG[k] = RoundOp(k - Faults - 4)
      <3>1. \A i \in 1..(3 * Faults) : TextG[Faults + 4 + i] = RoundOp(i)
        BY TextGIs, SMT
      <3> QED
        BY <2>1, <3>1, Zenon
    <2> QED
      BY <1>8, <2>1, <2>2
  <1> QED
    BY <1>1, <1>10, <1>11, <1>12

-----------------------------------------------------------------------------
(* What the tests show.                                                    *)

TestInv == /\ MemInv /\ BootInv /\ due = {} /\ failed = FALSE
           /\ prog = "c" => ~enabled
           /\ prog \in Sv39Tests => TablesInv

LEMMA InitTestInv == MemInit => TestInv
  <1> SUFFICES ASSUME MemInit
               PROVE  TestInv
    OBVIOUS
  <1>1. Init /\ PmpInit /\ step = 0 /\ prog \in Tests \cup {"any", "machine"}
        /\ due = {} /\ failed = FALSE
    BY Zenon DEF MemInit
  <1>2. MemInv
    <2>1. PmpInv /\ IInv
      BY <1>1, InitPmpInv, InitIInv, Zenon
    <2>2. due \subseteq AllFaults /\ failed \in BOOLEAN
      BY <1>1, Zenon
    <2>3. step \in Nat
      BY <1>1
    <2> QED
      BY <1>1, <2>1, <2>2, <2>3, Zenon DEF MemInv
  <1>3. BootInv
    BY <1>1, SMT DEF BootInv, PmpInit
  <1>4. ~enabled /\ \A s \in Space : root[s] = 0
    BY <1>1 DEF Init
  <1>5. TablesInv
    <2>1. Kas \in Space /\ User \subseteq Space
      BY DEF Space
    <2> QED
      BY <1>1, <1>4, <2>1, TestInit DEF TablesInv
  <1> QED
    BY <1>1, <1>2, <1>3, <1>4, <1>5, Zenon DEF TestInv

\* An access of a test ends as the test expects.
LEMMA AccessIsFine ==
  ASSUME TestInv, Sv39Access \/ PmpAccess
  PROVE  Ends(Operation) /\ due = {}
  <1>1. Runs("access")
    BY DEF Sv39Access, PmpAccess
  <1>2. PmpInv /\ BootInv /\ step \in Nat /\ due = {}
    BY DEF TestInv, MemInv
  <1>3. /\ step >= 5 /\ Operation = Text[prog][step - 4] /\ step - 4 \in 1..Len(Text[prog])
        /\ prog \in Tests /\ (prog # "c" => enabled)
    BY <1>1, <1>2, NextOperation
  <1>4. CASE prog = "c"
    <2>1. Text[prog] = TextC /\ ~enabled
      BY <1>4 DEF Text, TestInv
    <2>2. step - 4 \in 1..11
      BY <1>3, <2>1, TextCIs, SMT
    <2> QED
      BY <1>2, <1>3, <1>4, <2>1, <2>2, EndsC
  <1>5. CASE prog # "c"
    <2>1. prog \in Sv39Tests
      BY <1>3, <1>5 DEF Tests, Sv39Tests
    <2>2. step - 5 >= Maps[prog] /\ Maps[prog] \in Nat
      BY <1>1, <1>2, <2>1, WhichOperation
    <2>3. Ready
      BY <1>2, <1>3, <1>5, <2>1, <2>2 DEF Ready, TestInv
    <2>4. CASE prog = "s"
      <3>1. Text[prog] = TextS /\ Maps[prog] = 3
        BY <2>4 DEF Text, Maps
      <3>2. step - 4 \in 4..8
        BY <1>2, <1>3, <2>2, <3>1, TextSIs, SMT
      <3> QED
        BY <1>2, <1>3, <2>3, <2>4, <3>1, <3>2, EndsS
    <2>5. CASE prog = "f"
      <3>1. Text[prog] = TextF /\ Maps[prog] = 5
        BY <2>5, HugeOps DEF Text
      <3>2. step - 4 \in 6..18
        BY <1>2, <1>3, <2>2, <3>1, TextFIs, SMT
      <3> QED
        BY <1>2, <1>3, <2>3, <2>5, <3>1, <3>2, EndsF
    <2>6. CASE prog = "g"
      <3>1. Text[prog] = TextG /\ Maps[prog] = Faults + 2
        BY <2>6 DEF Text, Maps
      <3>2. step - 4 \in (Faults + 3)..(4 * Faults + 4)
        BY <1>2, <1>3, <2>2, <3>1, TextGIs, SMT
      <3> QED
        BY <1>2, <1>3, <2>3, <2>6, <3>1, <3>2, EndsG
    <2> QED
      BY <2>1, <2>4, <2>5, <2>6 DEF Sv39Tests
  <1> QED
    BY <1>2, <1>4, <1>5

LEMMA StepTestInv == TestInv /\ [MemNext]_allvars => TestInv'
  <1> SUFFICES ASSUME TestInv, [MemNext]_allvars
               PROVE  TestInv'
    OBVIOUS
  <1>1. MemInv' /\ BootInv'
    BY StepMemInv, BootStep DEF TestInv, MemInv
  <1>2. prog' = prog
    BY DEF MemNext, PmpReset, BootPmp, Machine, AnyVme, VmeInit, Map, MapMega, Sv39Access, PmpAccess,
           tests, allvars
  <1>3. prog \in Sv39Tests => TablesInv'
    BY TablesStep DEF TestInv, MemInv
  <1>4. prog = "c" => enabled' = enabled
    BY DEF MemNext, PmpReset, BootPmp, Machine, AnyVme, VmeInit, Map, MapMega, Sv39Access, PmpAccess,
           Runs, tests, allvars, vars
  <1>5. due' = {} /\ failed' = FALSE
    <2>1. CASE Sv39Access
      <3> DEFINE f == FaultOf(Operation.kind, Operation.at)
      <3>1. f = Operation.due /\ due = {}
        BY <2>1, AccessIsFine DEF Ends
      <3>2. /\ due' = (due \cup Operation.due) \ f
            /\ failed' = ~(f \subseteq due \cup Operation.due /\ Operation.look \cap due' = {})
        BY <2>1, Zenon DEF Sv39Access
      <3> HIDE DEF f
      <3>3. due' = {}
        BY <3>1, <3>2
      <3>4. f \subseteq due \cup Operation.due /\ Operation.look \cap due' = {}
        BY <3>1, <3>3
      <3> QED
        BY <3>2, <3>3, <3>4
    <2>2. CASE PmpAccess
      BY <2>2, AccessIsFine, Zenon DEF PmpAccess, Ends, TestInv
    <2>3. CASE ~Sv39Access /\ ~PmpAccess
      <3>1. due' = due /\ failed' = failed
        BY <2>3, Zenon DEF MemNext, PmpReset, BootPmp, Machine, AnyVme, VmeInit, Map, MapMega,
                           tests, allvars
      <3> QED
        BY <3>1 DEF TestInv
    <2> QED
      BY <2>1, <2>2, <2>3
  <1> QED
    BY <1>1, <1>2, <1>3, <1>4, <1>5 DEF TestInv

THEOREM TestInvariance == MemSpec => []TestInv
  BY InitTestInv, StepTestInv, PTL DEF MemSpec

\* No test halts with an error, whatever pages it maps and in whichever order _vme_init
\* goes through the segments: the page tables give every access the permissions of the
\* mapping that the test has made, PMP those of the boot code's calls, and the handler
\* that the test expects runs at each fault and no other.
THEOREM ChecksAlwaysPass == MemSpec => []ChecksPass
  <1>1. TestInv => ChecksPass
    BY DEF TestInv, ChecksPass
  <1> QED
    BY <1>1, TestInvariance, PTL

\* Every fault that a test awaits comes with the access it is awaited for.
THEOREM FaultsAreAlwaysSeen == MemSpec => []FaultsAreSeen
  <1>1. TestInv => FaultsAreSeen
    BY DEF TestInv, FaultsAreSeen
  <1> QED
    BY <1>1, TestInvariance, PTL

\* No program loses the kernel's pages: neither one that maps as it likes nor a test.
THEOREM KernelAlwaysThere == MemSpec => []KernelStays
  <1>1. TestInv => KernelStays
    <2>1. CASE prog \notin Tests
      BY <2>1, KernelThere DEF TestInv, MemInv
    <2>2. CASE prog \in Sv39Tests
      BY <2>2, TestKernelThere DEF TestInv, TablesInv
    <2>3. CASE prog = "c"
      BY <2>3 DEF TestInv, KernelStays
    <2> QED
      BY <2>1, <2>2, <2>3 DEF Tests, Sv39Tests
  <1> QED
    BY <1>1, TestInvariance, PTL

-----------------------------------------------------------------------------
(* The tests see the abstract spaces, too: one with the kernel's pages.    *)

OnlyKernel == [s \in Space |-> [v \in Virtual |-> IF s = Kas /\ v \in KernelVa THEN v ELSE Fault]]
NoPages    == [s \in Space |-> [v \in Virtual |-> Fault]]

TestSpaces == IF enabled THEN Made = {Kas} /\ Tr = OnlyKernel ELSE Made = {} /\ Tr = NoPages

LEMMA TestsSeeSpaces == prog \in Sv39Tests /\ TablesInv => TestSpaces
  <1> SUFFICES ASSUME prog \in Sv39Tests, TablesInv
               PROVE  TestSpaces
    OBVIOUS
  <1>1. CASE ~enabled
    BY <1>1 DEF TestSpaces, Made, Tr, NoPages
  <1>2. CASE enabled
    <2>1. satp = Kas /\ root[Kas] # 0 /\ \A s \in User : root[s] = 0
      BY <1>2, EnabledTables DEF TablesInv
    <2>2. Kas \in Space /\ \A s \in Space : s # Kas => root[s] = 0
      BY <2>1 DEF Space
    <2>3. Made = {Kas}
      BY <1>2, <2>1, <2>2 DEF Made
    <2>4. \A v \in KernelVa : Lookup(Kas, v) = v
      <3>1. KernelStays
        BY TestKernelThere DEF TablesInv
      <3> QED
        BY <1>2, <2>1, <2>2, <3>1 DEF KernelStays
    <2>5. \A v \in UserVa : Lookup(Kas, v) = Fault
      <3>1. \A v \in UserVa : v \in Vpn /\ Find(mem, root[Kas], v) = Fault
        BY <2>1, VmeAssumption DEF TablesInv, NoUserPage
      <3> QED
        BY <2>1, <3>1, TestLookup DEF TablesInv
    <2>6. \A s \in Space, v \in Virtual : s # Kas => Lookup(s, v) = Fault
      BY <2>2, Zenon DEF Lookup
    <2>7. \A s \in Space, v \in Virtual :
            Lookup(s, v) = IF s = Kas /\ v \in KernelVa THEN v ELSE Fault
      BY <2>4, <2>5, <2>6 DEF Virtual
    <2>8. Tr = OnlyKernel
      BY <1>2, <2>7 DEF Tr, OnlyKernel
    <2> QED
      BY <1>2, <2>3, <2>8 DEF TestSpaces
  <1> QED
    BY <1>1, <1>2

LEMMA TestStepImplements ==
  ASSUME prog \in Sv39Tests, TestSpaces, TestSpaces', enabled => enabled'
  PROVE  Spaces!Next \/ UNCHANGED <<Made, Tr>>
  <1>1. CASE enabled \/ ~enabled'
    BY <1>1 DEF TestSpaces
  <1>2. CASE ~enabled /\ enabled'
    <2>1. Made = {} /\ Made' = {Kas} /\ Tr = NoPages /\ Tr' = OnlyKernel
      BY <1>2 DEF TestSpaces
    <2>2. OnlyKernel = [NoPages EXCEPT ![Kas] = [v \in Virtual |-> IF v \in KernelVa THEN v ELSE Fault]]
      BY DEF OnlyKernel, NoPages, Space
    <2>3. Tr' = [Tr EXCEPT ![Kas] = [v \in Virtual |-> IF v \in KernelVa THEN v ELSE Fault]]
      BY <2>1, <2>2
    <2>4. Spaces!VmeInit
      BY <2>1, <2>3 DEF Spaces!VmeInit, Spaces!Identity, Made, Tr, Virtual
    <2> QED
      BY <2>4 DEF Spaces!Next
  <1> QED
    BY <1>1, <1>2

LEMMA MemStepImplements ==
  ASSUME RootsApart
  PROVE  TestInv /\ TestInv' /\ [MemNext]_allvars => [Spaces!Next]_(Spaces!vars)
  <1>1. (prog \in Sv39Tests /\ TablesInv => TestSpaces)'
    BY TestsSeeSpaces, PTL
  <1> SUFFICES ASSUME TestInv, TestInv', [MemNext]_allvars
               PROVE  Spaces!Next \/ UNCHANGED <<Made, Tr>>
    BY DEF Spaces!vars, Made, Tr, Virtual
  <1>2. prog' = prog
    BY DEF MemNext, PmpReset, BootPmp, Machine, AnyVme, VmeInit, Map, MapMega, Sv39Access, PmpAccess,
           tests, allvars
  <1>3. CASE prog \notin Tests
    <2>1. [Next]_vars
      BY <1>3 DEF MemNext, PmpReset, BootPmp, Machine, AnyVme, VmeInit, Map, MapMega, Sv39Access,
                  PmpAccess, Runs, allvars
    <2>2. IInv /\ IInv'
      BY <1>2, <1>3 DEF TestInv, MemInv
    <2> QED
      BY RootsApart, <2>1, <2>2, StepImplements DEF Spaces!vars, Made, Tr, Virtual
  <1>4. CASE prog \in Sv39Tests
    <2>1. TestSpaces /\ TestSpaces'
      BY <1>1, <1>2, <1>4, TestsSeeSpaces DEF TestInv
    <2>2. enabled => enabled'
      BY <1>4 DEF MemNext, PmpReset, BootPmp, Machine, AnyVme, VmeInit, KernelRoot, MapSegment, Enable,
                  Map, MapMega, Sv39Access, PmpAccess, Sv39Tests, allvars, vars
    <2> QED
      BY <1>4, <2>1, <2>2, TestStepImplements
  <1>5. CASE prog = "c"
    <2>1. ~enabled /\ ~enabled'
      BY <1>2, <1>5 DEF TestInv
    <2> QED
      BY <2>1 DEF Made, Tr
  <1> QED
    BY <1>3, <1>4, <1>5 DEF Tests, Sv39Tests

\* In a layout like NEMU's the tables behave as independent spaces under every program:
\* the pages that the tests and a program map for the kernel show in no space, and a test
\* sees a single one, with the kernel's pages.
THEOREM MemImplements ==
  ASSUME RootsApart
  PROVE  MemSpec => SpacesSpec
  <1>1. MemInit => Spaces!Init
    BY InitImplements, Zenon DEF MemInit
  <1>2. MemSpec => Spaces!Init /\ [][Spaces!Next]_(Spaces!vars)
    BY RootsApart, <1>1, MemStepImplements, TestInvariance, PTL DEF MemSpec
  <1> QED
    BY <1>2 DEF SpacesSpec, Spaces!Spec
=============================================================================
