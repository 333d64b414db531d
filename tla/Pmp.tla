--------------------------------- MODULE Pmp ---------------------------------
(***************************************************************************)
(* The driver of the physical memory protection registers (pmp.c) and how  *)
(* the hardware reads them: of the entries that cover an address, the one  *)
(* with the lowest number says what supervisor mode may do there.  Machine *)
(* mode, which calls the driver, is not checked.                           *)
(*                                                                         *)
(* Addresses count words of four bytes, as pmpaddr does.  The lock bit is  *)
(* 0 in every call of the repository; a write permission without a read    *)
(* permission is taken to be kept as it is written.                        *)
(*                                                                         *)
(* Duties of the callers, which the driver does not check: init_pmp once;  *)
(* every register for one region only, and not the last one; a region that *)
(* ends where a register can still say so; a NAPOT region aligned to its   *)
(* size; a TOR region that starts at 0 if it takes register 0.             *)
(***************************************************************************)
EXTENDS Integers

CONSTANTS
  Width,        \* bits of a pmpaddr register
  Use, Region,  \* registers and regions that a program in machine mode uses
  Probe,        \* addresses that RequestsHold looks at
  NoRequest

PMP_COUNT == 16
Reg  == 0..(PMP_COUNT - 1)
Byte == {0, 2} \X (0..7)
Perm == {"R", "W", "X"}

Pow2[k \in 0..Width] == IF k = 0 THEN 1 ELSE 2 * Pow2[k - 1]
PowersOf2 == {Pow2[k] : k \in 0..(Width - 1)}
AllOnes == Pow2[Width] - 1

ASSUME PmpAssumption ==
  /\ Width \in Nat
  /\ Use \subseteq Reg \ {PMP_COUNT - 1}
  /\ Region \subseteq [addr : Nat, size : Nat \ {0}, perm : SUBSET Perm]
  /\ \A q \in Region : q.addr + q.size <= AllOnes
  /\ Probe \subseteq 0..AllOnes
  /\ NoRequest \notin [tor : BOOLEAN, addr : Nat, size : Nat, perm : SUBSET Perm]

VARIABLES
  addr,         \* the pmpaddr registers
  cfg,          \* the bytes of pmpcfg0 and pmpcfg2, each as the set of its bits
  asked,        \* per register: the region a call has asked for
  booted        \* init_pmp has been called

pmpvars == <<addr, cfg, asked, booted>>

\* The bits of A: TOR is {"A0"}, NA4 is {"A1"}, NAPOT is both.
Mode == {"A0", "A1"}

PmpInit == /\ addr = [r \in Reg |-> 0]
           /\ cfg = [b \in Byte |-> {}]
           /\ asked = [r \in Reg |-> NoRequest]
           /\ booted = FALSE

-----------------------------------------------------------------------------
(* The driver.                                                             *)

\* The byte that csr_set_num writes, and its effect: bits are only ever added.
CfgByte(r) == <<IF r > 7 THEN 2 ELSE 0, r % 8>>
SetCfg(r, bits) == cfg' = [cfg EXCEPT ![CfgByte(r)] = @ \cup bits]

\* init_pmp leaves pmpcfg0 alone; the last entry grants everything.
InitPmp == /\ ~booted
           /\ booted' = TRUE
           /\ addr' = [r \in Reg |-> AllOnes]
           /\ cfg' = [b \in Byte |->
                        IF b = <<2, 7>> THEN Perm \cup Mode ELSE IF b[1] = 2 THEN {} ELSE cfg[b]]
           /\ UNCHANGED asked

Ask(r, q, tor) == asked' = [asked EXCEPT ![r] = [tor |-> tor, addr |-> q.addr,
                                                 size |-> q.size, perm |-> q.perm]]

\* Registers no region uses: a TOR region takes the one below as well.
Unused(r) == asked[r] = NoRequest /\ ~(asked[r + 1] # NoRequest /\ asked[r + 1].tor)

\* Mutation of EnablePmp: the whole size is appended instead of half of it.
EnablePmpWhole(r, q) ==
  /\ booted /\ Unused(r)
  /\ q.addr % q.size = 0
  /\ addr' = [addr EXCEPT ![r] = IF q.size = 1 THEN q.addr ELSE q.addr + q.size - 1]
  /\ SetCfg(r, q.perm \cup (IF q.size = 1 THEN {"A1"} ELSE Mode))
  /\ Ask(r, q, FALSE)
  /\ UNCHANGED booted

\* enable_pmp; it asserts that the size is a power of two.
EnablePmp(r, q) ==
  /\ booted /\ Unused(r)
  /\ q.size \in PowersOf2
  /\ q.addr % q.size = 0
  /\ addr' = [addr EXCEPT ![r] = IF q.size = 1 THEN q.addr ELSE q.addr + (q.size \div 2 - 1)]
  /\ SetCfg(r, q.perm \cup (IF q.size = 1 THEN {"A1"} ELSE Mode))
  /\ Ask(r, q, FALSE)
  /\ UNCHANGED booted

\* Mutation of EnablePmpTOR: the register above is set, as the comment of the
\* function says.
EnablePmpTORAbove(r, q) ==
  /\ booted /\ Unused(r)
  /\ IF r > 0 THEN Unused(r - 1) ELSE q.addr = 0
  /\ addr' = [addr EXCEPT ![r] = q.addr, ![r + 1] = q.addr + q.size]
  /\ SetCfg(r, q.perm \cup {"A0"})
  /\ Ask(r, q, TRUE)
  /\ UNCHANGED booted

\* enable_pmp_TOR: r holds the end of the region, the register below its start.
EnablePmpTOR(r, q) ==
  /\ booted /\ Unused(r)
  /\ IF r > 0 THEN Unused(r - 1) ELSE q.addr = 0
  /\ addr' = [e \in Reg |-> IF e = r THEN q.addr + q.size
                            ELSE IF e = r - 1 THEN q.addr ELSE addr[e]]
  /\ SetCfg(r, q.perm \cup {"A0"})
  /\ Ask(r, q, TRUE)
  /\ UNCHANGED booted

\* disable_pmp
DisablePmp(r) == /\ booted /\ asked[r] # NoRequest
                 /\ addr' = [addr EXCEPT ![r] = AllOnes]
                 /\ asked' = [asked EXCEPT ![r] = NoRequest]
                 /\ UNCHANGED <<cfg, booted>>

EnableAny == \E r \in Use, q \in Region : EnablePmp(r, q) \/ EnablePmpTOR(r, q)

PmpNext == InitPmp \/ EnableAny \/ \E r \in Use : DisablePmp(r)

PmpSpec == PmpInit /\ [][PmpNext]_pmpvars

-----------------------------------------------------------------------------
(* The hardware.                                                           *)

Cfg(r) == cfg[<<2 * (r \div 8), r % 8>>]

\* The size of the region that a NAPOT address stands for: twice the value of its
\* lowest zero.
NapotSize(a) == 2 * CHOOSE n \in PowersOf2 : a % (2 * n) = n - 1

Covers(r, w) ==
  LET a == addr[r]
  IN  \/ Cfg(r) \cap Mode = {"A0"} /\ (r > 0 => addr[r - 1] <= w) /\ w < a
      \/ Cfg(r) \cap Mode = {"A1"} /\ w = a
      \/ /\ Cfg(r) \cap Mode = Mode
         /\ a # AllOnes => w \div NapotSize(a) = a \div NapotSize(a)

Lowest(S) == CHOOSE r \in S : \A e \in S : r <= e

\* What supervisor mode may do at w; outside every entry, nothing.
Grants(w) == LET hit == {r \in Reg : Cfg(r) # {} /\ Covers(r, w)}
             IN  IF hit = {} THEN {} ELSE Cfg(Lowest(hit)) \cap Perm

-----------------------------------------------------------------------------
(* Properties.                                                             *)

\* What the calls have asked for, without registers: of the regions around w, the
\* one in the lowest register, and everything outside the regions.
Wanted(w) ==
  LET In(q) == q # NoRequest /\ q.addr <= w /\ w < q.addr + q.size
      hit   == {r \in Reg : In(asked[r])}
  IN  IF hit = {} THEN Perm ELSE asked[Lowest(hit)].perm

\* The hardware enforces what was asked for, whatever has been asked before and in
\* whichever order, at the edges of every region.
RequestsHold == booted => \A w \in Probe : Grants(w) = Wanted(w)
=============================================================================
