------------------------------- MODULE MemTest -------------------------------
(***************************************************************************)
(* Memory protection of riscv64-xs as a whole: an access of supervisor     *)
(* mode goes through the page tables (RvVme) and then through the entries  *)
(* of physical memory protection (Pmp) that __am_init_cte64 sets up before *)
(* it leaves machine mode.  On top, the programs of amtest that probe      *)
(* both: pmp_test (c), sv39_test (s), sv39_hp_atom_test (f) and            *)
(* sv39_ppn_af_test (g), with their handlers and checks.                   *)
(*                                                                         *)
(* Instead of them a program may use the operations of RvVme in any order, *)
(* or stay in machine mode and use those of Pmp in any order.              *)
(*                                                                         *)
(* A physical address counts words of four bytes.  A target of a mapping   *)
(* is the address with its permissions.  Far is an address whose high bits *)
(* are not 0, as _map_fault makes it: none of the first numbers of rand    *)
(* divides by 2^20 - 1.                                                    *)
(***************************************************************************)
EXTENDS RvVme, Pmp, Sequences

CONSTANTS
  Page,         \* <<0x9.., 0xa.., 0xb.., 0xc.., 0xd..>>, the pages the tests map
  Faults        \* bound: pages of sv39_ppn_af_test that fault, 100 in the code

\* The 2 MiB region that page v lies in.
Prefix(v) == <<v[1], v[2]>>

\* In the code the five pages lie under root entries of their own.
ASSUME MemAssumption ==
  /\ Page \in [1..5 -> Vpn]
  /\ Faults \in Nat \ {0} /\ 0..(Faults - 1) \subseteq Idx
  /\ \A i, j \in 1..5 : i # j => Prefix(Page[i]) # Prefix(Page[j])
  /\ \A i \in 1..5, v \in KernelVa \cup UserVa : Prefix(Page[i]) # Prefix(v)
  /\ Fault \notin Nat \X SUBSET Perm
  /\ Width = 30

VARIABLES
  prog,         \* the program that runs
  step,         \* boot calls, then operations of the program, that are over
  due,          \* faults to be reported
  failed        \* _halt(1)

tests   == <<prog, step, due, failed>>
allvars == <<vars, pmpvars, tests>>

-----------------------------------------------------------------------------
(* The boot code, and the texts of the tests.                              *)

Call(tor, r, a, s, p) == [tor |-> tor, reg |-> r, q |-> [addr |-> a, size |-> s, perm |-> p]]

\* Mutation of BootCalls: 0xb0000000 may be written.
BootCallsWritable ==
  <<Call(FALSE, 1, \h24000000, \h4000, {}),
    Call(TRUE,  3, \h2c000000, \h400, {"W"}),
    Call(TRUE,  5, \h2c001000, \h400, {"R"}),
    Call(TRUE,  7, \h2c002000, \h400, {"W"}),
    Call(TRUE,  9, \h2c004000, \h400, {})>>

\* Addresses and sizes in words: 0x90000000 is \h24000000, 0xb0000000 is \h2c000000.
BootCalls == <<Call(FALSE, 1, \h24000000, \h4000, {}),
               Call(TRUE,  3, \h2c000000, \h400, {}),
               Call(TRUE,  5, \h2c001000, \h400, {"R"}),
               Call(TRUE,  7, \h2c002000, \h400, {"W"}),
               Call(TRUE,  9, \h2c004000, \h400, {})>>

Far == AllOnes + 1

\* Operations: a mapping of one of three kinds, or an access.  An access is expected
\* to end with the faults in due, and the flag of look is tested afterwards.
MapOp(how, i, a, p) == [op |-> how, page |-> Page[i], target |-> <<a, p>>]
Access(kind, at, f, look) == [op |-> "access", kind |-> kind, at |-> at, due |-> f, look |-> look]
Fine(kind, at)   == Access(kind, at, {}, {})
Bad(kind, at, f) == Access(kind, at, {f}, {f})

LoadPage   == <<"load", "page">>
StorePage  == <<"store", "page">>
LoadGuard  == <<"load", "access">>
StoreGuard == <<"store", "access">>

\* pmp_test
TextC == <<Bad("store", \h24000010, StoreGuard), Fine("store", \h28000000),
           Bad("store", \h2c000010, StoreGuard), Bad("load",  \h24000010, LoadGuard),
           Bad("load",  \h2c000010, LoadGuard),  Bad("store", \h2c004000, StoreGuard),
           Bad("load",  \h2c000010, LoadGuard),  Bad("store", \h2c000010, StoreGuard),
           Bad("amo",   \h2c000010, StoreGuard), Bad("amo",   \h2c002000, StoreGuard),
           Bad("amo",   \h2c001000, StoreGuard)>>

\* sv39_test: 0x80020000 is mapped three times.
TextS == <<MapOp("4K", 1, \h20008000, {"R"}), MapOp("4K", 2, \h20008000, {"R", "W"}),
           MapOp("4K", 3, \h20008000, {}),
           Fine("store", Page[2]), Fine("load", Page[1]),
           Bad("store", Page[3], StorePage),
           Bad("load", Page[3], LoadPage), Fine("store", Page[2])>>

\* sv39_hp_atom_test.  After the two stores that PMP refuses it looks at the flag of the
\* page fault (sv39.c:270 and :316).
TextF == <<MapOp("4K", 1, \h20080000, {"R"}), MapOp("2M", 2, \h20080000, {"R", "W"}),
           MapOp("2M", 3, \h20080000, {"R"}), MapOp("2M", 4, \h20080000, {"W"}),
           MapOp("2M", 5, \h2c000000, {"R", "W"}),
           Fine("store", Page[2]), Fine("load", Page[2]), Fine("load", Page[1]),
           Bad("store", Page[3], StorePage),
           Bad("load", Page[4], LoadPage), Fine("store", Page[2]),
           Access("store", Page[5], {StoreGuard}, {StorePage}),
           Bad("load", Page[5], LoadGuard), Fine("store", Page[2]),
           Bad("amo", Page[3], StorePage),
           Bad("load", Page[4], LoadPage),
           Access("amo", Page[5], {StoreGuard}, {StorePage}),
           Bad("load", Page[5], LoadGuard)>>

\* sv39_ppn_af_test
FaultPage(i) == <<Page[3][1], Page[3][2], i - 1>>
TextG == <<MapOp("4K", 1, \h20008000, {"R", "W"}), MapOp("4K", 2, \h20008000, {"R", "W"})>>
         \o [i \in 1..Faults |-> [op |-> "4K", page |-> FaultPage(i), target |-> <<Far, {"R", "W"}>>]]
         \o <<Fine("store", Page[2]), Fine("load", Page[1])>>
         \o [i \in 1..(3 * Faults) |->
               LET v == FaultPage((i + 2) \div 3)
               IN  CASE i % 3 = 1 -> Bad("store", v, StoreGuard)
                     [] i % 3 = 2 -> Bad("load", v, LoadGuard)
                     [] i % 3 = 0 -> Fine("store", Page[2])]

Text == [c |-> TextC, s |-> TextS, f |-> TextF, g |-> TextG]
Tests == {"c", "s", "f", "g"}

-----------------------------------------------------------------------------
(* An access of supervisor mode.                                           *)

Needs(kind) == CASE kind = "load"  -> {"R"}         \* lr.d among them
                 [] kind = "store" -> {"W"}         \* sc.d among them
                 [] kind = "amo"   -> {"R", "W"}
As(kind) == IF kind = "load" THEN "load" ELSE "store"

\* What PMP refuses, and what lies outside physical memory, is an access fault.
PhysFault(kind, a) ==
  IF a < Far /\ Needs(kind) \subseteq Grants(a) THEN {} ELSE {<<As(kind), "access">>}

\* Without permission to read, permission to write is reserved: such a page faults.
PageFaults(kind, t) == \/ t = Fault
                       \/ ~(Needs(kind) \subseteq t[2])
                       \/ "W" \in t[2] /\ "R" \notin t[2]

FaultOf(kind, at) ==
  IF ~enabled THEN PhysFault(kind, at)
  ELSE LET t == Lookup(satp, at)
       IN  IF PageFaults(kind, t) THEN {<<As(kind), "page">>} ELSE PhysFault(kind, t[1])

-----------------------------------------------------------------------------
(* Steps.                                                                  *)

MemInit == /\ Init /\ PmpInit
           /\ prog \in Tests \cup {"any", "machine"}
           /\ step = 0 /\ due = {} /\ failed = FALSE

\* init_pmp, which a program that stays in machine mode calls as well.
PmpReset == InitPmp /\ UNCHANGED <<vars, tests>>

\* The calls of enable_pmp and enable_pmp_TOR in __am_init_cte64.
BootPmp == /\ booted /\ prog # "machine" /\ step < Len(BootCalls)
           /\ LET b == BootCalls[step + 1]
              IN  IF b.tor THEN EnablePmpTOR(b.reg, b.q) ELSE EnablePmp(b.reg, b.q)
           /\ step' = step + 1
           /\ UNCHANGED <<vars, prog, due, failed>>

Machine == prog = "machine" /\ EnableAny /\ UNCHANGED <<vars, tests>>

Supervisor == step >= Len(BootCalls)

AnyVme == /\ prog = "any" /\ Supervisor
          /\ Next
          /\ UNCHANGED <<pmpvars, tests>>

\* sv39 tests begin with _vme_init; _vme_init maps the segments one after the other.
VmeInit == /\ prog \in Tests \ {"c"} /\ Supervisor /\ ~enabled
           /\ KernelRoot \/ Enable \/ \E v \in KernelVa : MapSegment(v)
           /\ UNCHANGED <<pmpvars, tests>>

Operation == Text[prog][step - Len(BootCalls) + 1]

Runs(op) == /\ prog \in Tests /\ Supervisor /\ ~failed
            /\ prog # "c" => enabled
            /\ step - Len(BootCalls) < Len(Text[prog])
            /\ op = Operation.op
            /\ step' = step + 1

\* _map, also for _map_fault
Map == /\ Runs("4K") /\ used + 2 <= MaxTables
       /\ Becomes(Walk4K(Kas, Operation.page, Operation.target))
       /\ UNCHANGED <<pmpvars, root, todo, enabled, satp, prog, due, failed>>

\* _map_rv_hugepage, level 1
MapMega == /\ Runs("2M") /\ used + 1 <= MaxTables
           /\ Becomes(Walk2M(Kas, Prefix(Operation.page), Operation.target))
           /\ UNCHANGED <<pmpvars, root, todo, enabled, satp, prog, due, failed>>

\* The flag of the fault is set, the access made, and a handler halts at a fault nobody
\* awaits or clears its flag and skips the instruction; then the test looks at a flag.
Sv39Access == LET o == Operation
                  f == FaultOf(o.kind, o.at) IN
  /\ prog # "c" /\ Runs("access")
  /\ due' = (due \cup o.due) \ f
  /\ failed' = ~(f \subseteq due \cup o.due /\ o.look \cap due' = {})
  /\ UNCHANGED <<vars, pmpvars, prog>>

\* Here the handlers set a flag of their own, and result_check compares the two and
\* clears them.
PmpAccess == LET o == Operation IN
  /\ prog = "c" /\ Runs("access")
  /\ failed' = (FaultOf(o.kind, o.at) # o.due)
  /\ UNCHANGED <<vars, pmpvars, prog, due>>

MemNext == \/ PmpReset \/ BootPmp \/ Machine \/ AnyVme
           \/ VmeInit \/ Map \/ MapMega \/ Sv39Access \/ PmpAccess

MemSpec == MemInit /\ [][MemNext]_allvars

-----------------------------------------------------------------------------
(* Properties.                                                             *)

MemTypeOK == /\ addr \in [Reg -> 0..AllOnes]
             /\ cfg \in [Byte -> SUBSET (Perm \cup Mode)]
             /\ booted \in BOOLEAN /\ failed \in BOOLEAN
             /\ prog \in Tests \cup {"any", "machine"}
             /\ step \in Nat /\ due \subseteq {LoadPage, StorePage, LoadGuard, StoreGuard}
             /\ prog \notin Tests => TypeOK

\* No test halts with an error: no handler runs that the test does not expect, and
\* result_check and the checks of sv39.c find what they look for.
ChecksPass == ~failed

\* Every fault a test awaits has come before its next operation.  The tests do not see to
\* this themselves: after a store to the page that PMP guards, sv39.c:270 looks at the
\* flag of another fault, so that a store which went ahead would go unnoticed.
FaultsAreSeen == due = {}
=============================================================================
