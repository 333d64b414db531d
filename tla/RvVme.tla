-------------------------------- MODULE RvVme --------------------------------
(***************************************************************************)
(* The Sv39 page tables of the RISC-V ports (vme.c): _vme_init maps the    *)
(* kernel segments one to one and turns translation on, _protect makes a   *)
(* space by copying the kernel's root table, _map and _map_rv_hugepage     *)
(* walk and extend a space's tables.  Tables are never freed (_unprotect   *)
(* is empty).                                                              *)
(*                                                                         *)
(* A virtual page is the triple of its three table indexes.  A target      *)
(* stands for the physical page together with the permission bits.  One    *)
(* hart calls these operations, each of them to its end.                   *)
(***************************************************************************)
EXTENDS Integers

CONSTANTS
  Idx,          \* indexes of a table, 512 of them in Sv39
  User,         \* address spaces made by _protect
  Kas, NoSpace, \* the kernel's space; "no space"
  KernelVa,     \* pages of segments[]
  ExtraVa,      \* pages mapped in the kernel's space later
  HugeVa,       \* <<i, j>> of the 2 MiB and <<i>> of the 1 GiB pages mapped there
  UserVa,       \* pages inside USER_SPACE
  Pa,           \* targets of mappings
  Fault,        \* the result of a walk that finds no page
  Junk,         \* what a page from pgalloc holds
  MaxTables     \* bound: pages that pgalloc hands out

Vpn == Idx \X Idx \X Idx

\* Huge pages lie apart from everything mapped in pages of another size: a walk that
\* meets a huge page takes it for a table and stores into the memory it maps.
ASSUME VmeAssumption ==
  /\ MaxTables \in Nat
  /\ Kas \notin User /\ NoSpace \notin User \cup {Kas}
  /\ KernelVa \subseteq Vpn /\ ExtraVa \subseteq Vpn /\ UserVa \subseteq Vpn
  /\ UserVa \cap KernelVa = {}
  /\ Fault \notin Pa \cup KernelVa \cup {Junk}
  /\ HugeVa \subseteq (Idx \X Idx) \cup {<<i>> : i \in Idx}
  /\ \A i, j \in Idx : <<i, j>> \in HugeVa => <<i>> \notin HugeVa
  /\ \A h \in HugeVa, v \in KernelVa \cup ExtraVa \cup UserVa :
       h # <<v[1], v[2]>> /\ h # <<v[1]>>

\* The root entries of user pages are the user's own: true of the NEMU layout,
\* where the segments end at 0xa2010000 and USER_SPACE starts at 0xc0000000.
RootsApart == \A u \in UserVa, k \in KernelVa \cup ExtraVa \cup HugeVa : u[1] # k[1]

VARIABLES
  mem,          \* pages handed out by pgalloc, as tables
  used,         \* how many there are
  root,         \* per space: as->ptr, or 0
  todo,         \* pages of the segments that _vme_init has still to map
  enabled,      \* vme_enable
  satp          \* the space satp points at

vars == <<mem, used, root, todo, enabled, satp>>

Space == {Kas} \cup User
Frame == 1..MaxTables

None       == [to |-> "none", at |-> 0]        \* PTE_V clear
TableAt(t) == [to |-> "table", at |-> t]
PageAt(p)  == [to |-> "page", at |-> p]

Empty == [i \in Idx |-> None]

Init == /\ mem = [t \in Frame |-> [i \in Idx |-> PageAt(Junk)]]
        /\ used = 0
        /\ root = [s \in Space |-> 0]
        /\ todo = KernelVa
        /\ enabled = FALSE
        /\ satp = NoSpace

-----------------------------------------------------------------------------
(* The walk.  [mem, used, at] is the memory and the table it has reached.  *)

\* Mutation of NewPage: the allocator hands the same page out again.
NewPageAgain(w) == [mem |-> [w.mem EXCEPT ![w.used + 1] = Empty],
                    used |-> w.used, at |-> w.used + 1]

\* new_page: pgalloc and memset.
NewPage(w) == [mem |-> [w.mem EXCEPT ![w.used + 1] = Empty],
               used |-> w.used + 1, at |-> w.used + 1]

\* Put the table the walk has just made into entry i of table t.
Hook(w, t, i) == [w EXCEPT !.mem[t][i] = TableAt(w.at)]

\* One level down through entry i.
Descend(w, i) == LET e == w.mem[w.at][i]
                 IN  IF e.to = "none" THEN Hook(NewPage(w), w.at, i)
                                      ELSE [w EXCEPT !.at = e.at]

\* Mutation of SetLeaf: an entry in use is replaced.
SetLeafAlways(w, i, p) == [w EXCEPT !.mem[w.at][i] = PageAt(p)]

\* The last entry is written only if it is not in use.
SetLeaf(w, i, p) == IF w.mem[w.at][i].to = "none"
                      THEN [w EXCEPT !.mem[w.at][i] = PageAt(p)]
                      ELSE w

WalkFrom(s) == [mem |-> mem, used |-> used, at |-> root[s]]

Walk4K(s, v, p) == SetLeaf(Descend(Descend(WalkFrom(s), v[1]), v[2]), v[3], p)
Walk2M(s, h, p) == SetLeaf(Descend(WalkFrom(s), h[1]), h[2], p)
Walk1G(s, h, p) == SetLeaf(WalkFrom(s), h[1], p)

Becomes(w) == mem' = w.mem /\ used' = w.used

-----------------------------------------------------------------------------
(* _vme_init                                                               *)

KernelRoot == /\ root[Kas] = 0 /\ used < MaxTables
              /\ Becomes(NewPage(WalkFrom(Kas)))
              /\ root' = [root EXCEPT ![Kas] = used + 1]
              /\ UNCHANGED <<todo, enabled, satp>>

MapSegment(v) == /\ root[Kas] # 0 /\ v \in todo
                 /\ used + 2 <= MaxTables
                 /\ Becomes(Walk4K(Kas, v, v))
                 /\ todo' = todo \ {v}
                 /\ UNCHANGED <<root, enabled, satp>>

Enable == /\ root[Kas] # 0 /\ todo = {} /\ ~enabled
          /\ satp' = Kas
          /\ enabled' = TRUE
          /\ UNCHANGED <<mem, used, root, todo>>

-----------------------------------------------------------------------------

\* Mutation of Protect: the kernel's root table is not copied.
ProtectEmpty(s) ==
  /\ enabled /\ root[s] = 0 /\ used < MaxTables
  /\ Becomes(NewPage(WalkFrom(s)))
  /\ root' = [root EXCEPT ![s] = used + 1]
  /\ UNCHANGED <<todo, enabled, satp>>

\* The copy shares every table below the root with the kernel's space.
Protect(s) == /\ enabled /\ root[s] = 0 /\ used < MaxTables
              /\ mem' = [mem EXCEPT ![used + 1] = mem[root[Kas]]]
              /\ used' = used + 1
              /\ root' = [root EXCEPT ![s] = used + 1]
              /\ UNCHANGED <<todo, enabled, satp>>

\* _map in a protected space.
MapUser(s, v, p) == /\ enabled /\ root[s] # 0 /\ used + 2 <= MaxTables
                    /\ Becomes(Walk4K(s, v, p))
                    /\ UNCHANGED <<root, todo, enabled, satp>>

\* _map and _map_rv_hugepage in the kernel's space.
MapExtra(v, p) == /\ enabled /\ used + 2 <= MaxTables
                  /\ Becomes(Walk4K(Kas, v, p))
                  /\ UNCHANGED <<root, todo, enabled, satp>>

MapHuge(h, p) == /\ enabled /\ used + 1 <= MaxTables
                 /\ Becomes(IF h \in Idx \X Idx THEN Walk2M(Kas, h, p) ELSE Walk1G(Kas, h, p))
                 /\ UNCHANGED <<root, todo, enabled, satp>>

\* Every trap saves satp in the context and loads it back; a handler may have
\* put the table of another space there.
Trap(s) == /\ enabled /\ root[s] # 0
           /\ satp' = s
           /\ UNCHANGED <<mem, used, root, todo, enabled>>

Next == \/ KernelRoot \/ Enable
        \/ \E v \in KernelVa : MapSegment(v)
        \/ \E s \in User : \/ Protect(s)
                           \/ \E v \in UserVa, p \in Pa : MapUser(s, v, p)
        \/ \E v \in ExtraVa, p \in Pa : MapExtra(v, p)
        \/ \E h \in HugeVa, p \in Pa : MapHuge(h, p)
        \/ \E s \in Space : Trap(s)

Spec == Init /\ [][Next]_vars

-----------------------------------------------------------------------------
(* Properties.                                                             *)

\* What the hardware finds for page v in the tables of space s.
Lookup(s, v) ==
  LET e2 == mem[root[s]][v[1]]
      e1 == mem[e2.at][v[2]]
      e0 == mem[e1.at][v[3]]
  IN  CASE root[s] = 0 \/ e2.to = "none" -> Fault
        [] root[s] # 0 /\ e2.to = "page" -> e2.at
        [] root[s] # 0 /\ e2.to = "table" ->
             CASE e1.to = "none" -> Fault
               [] e1.to = "page" -> e1.at
               [] e1.to = "table" -> IF e0.to = "page" THEN e0.at ELSE Fault

\* An entry is empty, points to a table handed out, or to a page.
EntryOK(e, Target) == \/ e.to = "none"
                      \/ e.to = "table" /\ e.at \in 1..used
                      \/ e.to = "page" /\ e.at \in Target

TypeOK == /\ used \in 0..MaxTables
          /\ \A t \in Frame, i \in Idx : EntryOK(mem[t][i], Pa \cup KernelVa \cup {Junk})
          /\ root \in [Space -> 0..used]
          /\ todo \subseteq KernelVa
          /\ enabled \in BOOLEAN
          /\ satp \in Space \cup {NoSpace}

\* With translation on, the kernel's pages are there in every space that satp may
\* point at: a trap out of any of them finds the trap entry, its stack and the
\* devices, whatever has been mapped since the space was made.
KernelStays == enabled =>
  /\ root[satp] # 0
  /\ \A s \in Space, v \in KernelVa : root[s] # 0 => Lookup(s, v) = v

\* A step changes what user pages map to in one space at most: protected spaces
\* do not see each other's user memory (am.h:52).
MapIsLocal ==
  [][\A s, t \in User, u, v \in UserVa :
       /\ root[s] # 0 /\ root[t] # 0
       /\ Lookup(s, u)' # Lookup(s, u) /\ Lookup(t, v)' # Lookup(t, v)
       => s = t]_vars

\* The tables implement independent spaces.
Spaces == INSTANCE AddrSpaces
  WITH made <- IF enabled THEN {s \in Space : root[s] # 0} ELSE {},
       tr <- [s \in Space |-> [v \in KernelVa \cup UserVa |->
                IF enabled THEN Lookup(s, v) ELSE Fault]]
SpacesSpec == Spaces!Spec
=============================================================================
